---- MODULE Spec2Model ----
(***************************************************************************)
(* Model of the Megatron core checkpoint loader                            *)
(* (tools/checkpoint/loader_core.py, tools/checkpoint/schema_core.py).     *)
(*                                                                         *)
(* load_checkpoint(queue, args) is a single producer thread.  It walks the *)
(* (virtual-pipeline, pipeline, tensor-parallel) ranks of a checkpoint,    *)
(* asks the Shard Provider (megatron load_checkpoint) for one model per    *)
(* shard, merges the tensors of each logical unit and puts one message per *)
(* unit on a FIFO queue read by one sink.                                  *)
(*                                                                         *)
(* One action of the model is one step of the producer between two         *)
(* externally visible events (a queue.put or a Shard Provider load), or    *)
(* one get of the sink.                                                    *)
(***************************************************************************)
EXTENDS Integers, Sequences, FiniteSets, TLC

(***************************************************************************)
(* Bounds of the model.                                                    *)
(***************************************************************************)
MaxTP == 2                 \* tensor_model_parallel_size ranges over 1..MaxTP
MaxPP == 2                 \* pipeline_model_parallel_size ranges over 1..MaxPP
MaxVP == 2                 \* virtual pipeline size: None or 2..MaxVP
MaxLayersPerStage == 2     \* layers held by one (pp, vp) model chunk
MaxQueue == 1              \* capacity of the hand-off queue (blocking put)
MaxRows == 2               \* rows of a row-parallel tensor held by one rank
MaxExperts == 4            \* num_experts and expert parallel size in calls

(***************************************************************************)
(* Python values.                                                          *)
(***************************************************************************)
None == -1                 \* None where the other values are naturals

\* The attributes check_for_arg looks at, in call order (lines 112-126).
CheckedArgs ==
    << "tensor_model_parallel_size", "pipeline_model_parallel_size",
       "num_layers", "hidden_size", "seq_length", "num_attention_heads",
       "max_position_embeddings", "position_embedding_type",
       "tokenizer_type", "iteration", "bert_binary_head",
       "disable_bias_linear", "params_dtype", "swiglu", "xielu" >>

\* The calls that pass default=False (lines 123, 125, 126).
DefaultedArgs == {"disable_bias_linear", "swiglu", "xielu"}

CheckedArgSet == {CheckedArgs[i] : i \in 1..Len(CheckedArgs)}

VARIABLES
    pc,                      \* position of the producer
    args,                    \* the args parameter of load_checkpoint
    margs,                   \* megatron args (parse_args + checkpoint)
    md,                      \* the metadata namespace
    consumed_train_samples,  \* nonlocal of get_models
    consumed_valid_samples,  \* nonlocal of get_models
    mpu,                     \* megatron.core.mpu rank state
    gm,                      \* frame of a running get_models call
    all_models,              \* all_models[pp][vp][tp], 1-based
    models,                  \* the current model set (one model per tp rank)
    schema,                  \* the schema returned by get_model_schema
    loop,                    \* vp_rank, pp_rank, layer_num, total_layer_num
    queue,                   \* items put and not yet taken by the sink
    received,                \* items the sink has taken, in order
    trace,                   \* history: puts, shard loads, defaults set
    exc,                     \* the exception in flight or propagated
    call,                    \* a merge or schema function and its arguments
    result                   \* what that function returned

vars == << pc, args, margs, md, consumed_train_samples,
           consumed_valid_samples, mpu, gm, all_models, models, schema,
           loop, queue, received, trace, exc >>

\* The locals of _load_checkpoint (gone when its frame is left).
locals == << margs, md, consumed_train_samples, consumed_valid_samples,
             gm, all_models, models, schema, loop >>

\* The function call looked at on its own, outside a run of the loader.
pure == << call, result >>

(***************************************************************************)
(* Inputs of a run: the loader arguments and the checkpoint's arguments.   *)
(***************************************************************************)
ModelTypes == {"GPT", "BERT", "T5"}

\* vocab_file stands for len(json.load(open(args.vocab_file))), or None.
PlainArgs ==
    [ model_type |-> "GPT", true_vocab_size |-> None, vocab_file |-> None,
      test_logits |-> FALSE, loader_transformer_impl |-> "transformer_engine",
      position_embedding_type |-> "learned_absolute" ]

\* Arguments of the runs that walk every rank geometry.
GeometryArgs ==
    { [PlainArgs EXCEPT !.model_type = t, !.test_logits = l] :
        t \in {"GPT", "BERT"}, l \in BOOLEAN }

\* Arguments of the runs that walk the configuration surface.
ConfigArgs ==
    { [PlainArgs EXCEPT !.model_type = t, !.true_vocab_size = s,
                        !.vocab_file = f, !.loader_transformer_impl = i] :
        t \in ModelTypes, s \in {None, 5}, f \in {None, 6},
        i \in {"local", "transformer_engine"} }

VpOr1(vp) == IF vp = None THEN 1 ELSE vp

VpSizes == {None} \cup (2..MaxVP)

\* A checkpoint with every checked argument present.
PlainMargs ==
    [ unset |-> {},
      tensor_model_parallel_size |-> 1,
      pipeline_model_parallel_size |-> 1,
      virtual_pipeline_model_parallel_size |-> None,
      num_layers |-> 1,
      bert_binary_head |-> TRUE,
      swiglu |-> FALSE,
      add_bias_linear |-> FALSE,
      add_qkv_bias |-> FALSE,
      normalization |-> "RMSNorm",
      untie_embeddings_and_output_weights |-> FALSE,
      num_experts |-> None,
      expert_model_parallel_size |-> 1,
      disable_bias_linear |-> FALSE,
      xielu |-> FALSE,
      transformer_impl |-> "transformer_engine",
      position_embedding_type |-> "learned_absolute",
      position_table |-> TRUE ]

\* Checkpoints of every rank geometry; the model chunks of one checkpoint
\* hold the same number of layers, num_layers / (pp_size * vp_size).
GeometryMargs(a) ==
    { [PlainMargs EXCEPT
         !.tensor_model_parallel_size = tp,
         !.pipeline_model_parallel_size = pp,
         !.virtual_pipeline_model_parallel_size = vp,
         !.num_layers = n * pp * VpOr1(vp),
         !.bert_binary_head = b,
         !.untie_embeddings_and_output_weights = u] :
        tp \in 1..MaxTP, pp \in 1..MaxPP, vp \in VpSizes,
        n \in 1..MaxLayersPerStage,
        b \in IF a.model_type = "BERT" THEN BOOLEAN ELSE {TRUE},
        u \in BOOLEAN }

\* Dense and mixture-of-experts checkpoints of one pipeline stage.
ConfigMargs ==
    { [PlainMargs EXCEPT
         !.tensor_model_parallel_size = tp,
         !.num_experts = e[1],
         !.expert_model_parallel_size = e[2],
         !.add_bias_linear = lb] :
        tp \in 1..MaxTP, e \in {<<None, 1>>, <<4, 2>>, <<4, 1>>},
        lb \in BOOLEAN }

\* Arguments of the runs that walk the per-layer flags.
LayerArgs ==
    { [PlainArgs EXCEPT !.loader_transformer_impl = i] :
        i \in {"local", "transformer_engine"} }

\* Checkpoints with every setting of the bias, gated-activation and
\* normalization flags the layer loop reads.
LayerMargs ==
    { [PlainMargs EXCEPT
         !.num_experts = e[1],
         !.expert_model_parallel_size = e[2],
         !.add_bias_linear = lb,
         !.add_qkv_bias = qb,
         !.swiglu = sw,
         !.normalization = nm] :
        e \in {<<None, 1>>, <<0, 1>>, <<4, 2>>},
        lb \in BOOLEAN, qb \in BOOLEAN, sw \in BOOLEAN,
        nm \in {"RMSNorm", "LayerNorm"} }

\* Arguments of the runs that walk the position-embedding kinds.
EmbeddingArgs ==
    { [PlainArgs EXCEPT !.position_embedding_type = t] :
        t \in {"learned_absolute", "rope"} }

\* Checkpoints of either position-embedding kind (line 74 passes the
\* argument to parse_args, load_args_from_checkpoint may replace it by the
\* checkpoint's own) whose first-stage shards hold a position table
\* (position_table, carried with the checkpoint's arguments) or none.
EmbeddingMargs ==
    { [PlainMargs EXCEPT
         !.tensor_model_parallel_size = tp,
         !.position_embedding_type = t,
         !.position_table = p] :
        tp \in 1..MaxTP, t \in {"learned_absolute", "rope"},
        p \in BOOLEAN }

\* Checkpoints that lack one or two of the checked arguments.
UnsetMargs ==
    { [PlainMargs EXCEPT !.unset = {x, y}] : x, y \in CheckedArgSet }

MargsChoices(a) ==
    (IF a \in GeometryArgs THEN GeometryMargs(a) ELSE {})
    \cup (IF a \in ConfigArgs THEN ConfigMargs ELSE {})
    \cup (IF a \in LayerArgs THEN LayerMargs ELSE {})
    \cup (IF a \in EmbeddingArgs THEN EmbeddingMargs ELSE {})
    \cup (IF a = PlainArgs THEN UnsetMargs ELSE {})

\* The (train, valid) consumed-sample counters one shard file may report.
SampleReports == { <<2, 1>>, <<0, 1>>, <<2, 0>> }

(***************************************************************************)
(* Values of the variables where the code has not assigned them yet.       *)
(***************************************************************************)
NoMargs == [unset |-> {}]
NoMd == [model_type |-> "unset"]
NoGm == [rank |-> 0, models |-> <<>>, caller |-> "none"]
NoSchema == [cls |-> "unset", num_local_experts |-> 0]
NoLoop == [vp_rank |-> 0, pp_rank |-> 0, layer_num |-> 0, total_layer_num |-> 0]
NoMpu == [pp_rank |-> None, vp_rank |-> None, tp_rank |-> None]
NoExc == [type |-> "none", at |-> "none"]
NoCall == [fn |-> "none"]
NoResult == [fn |-> "none"]

(***************************************************************************)
(* schema_core.py: the role -> storage path tables, as sets of pairs.      *)
(***************************************************************************)
get_core_transformer_block_key(model_key) ==
    IF model_key = "GPT" THEN "decoder" ELSE "encoder"

\* The layer table shared by CoreLocalSchema and CoreTESchema.
DenseLayerSchema ==
    { <<"self_attn_norm_weight", "input_layernorm.weight">>,
      <<"self_attn_norm_bias", "input_layernorm.bias">>,
      <<"self_attn_qkv_weight", "self_attention.linear_qkv.weight">>,
      <<"self_attn_qkv_bias", "self_attention.linear_qkv.bias">>,
      <<"self_attn_proj_weight", "self_attention.linear_proj.weight">>,
      <<"self_attn_proj_bias", "self_attention.linear_proj.bias">>,
      <<"self_attn_q_layernorm_weight", "self_attention.q_layernorm.weight">>,
      <<"self_attn_q_layernorm_bias", "self_attention.q_layernorm.bias">>,
      <<"self_attn_k_layernorm_weight", "self_attention.k_layernorm.weight">>,
      <<"self_attn_k_layernorm_bias", "self_attention.k_layernorm.bias">>,
      <<"mlp_norm_weight", "pre_mlp_layernorm.weight">>,
      <<"mlp_norm_bias", "pre_mlp_layernorm.bias">>,
      <<"mlp_fc1_weight", "mlp.linear_fc1.weight">>,
      <<"mlp_fc1_bias", "mlp.linear_fc1.bias">>,
      <<"mlp_fc2_weight", "mlp.linear_fc2.weight">>,
      <<"mlp_fc2_bias", "mlp.linear_fc2.bias">>,
      <<"mlp_xielu_alpha_p", "mlp.activation_func.alpha_p">>,
      <<"mlp_xielu_alpha_n", "mlp.activation_func.alpha_n">> }

CoreLocalSchemaLayer == DenseLayerSchema

CoreTESchemaLayer == DenseLayerSchema

\* f"{role}.{expert_idx}" : f"mlp.experts.local_experts.{expert_idx}.{tail}"
\* for expert_idx in range(num_local_experts)
ExpertEntries(role, tail, num_local_experts) ==
    { << role \o "." \o ToString(expert_idx),
         "mlp.experts.local_experts." \o ToString(expert_idx) \o "." \o tail >> :
        expert_idx \in 0..(num_local_experts - 1) }

CoreMoETESchemaLayer(num_local_experts) ==
    { <<"self_attn_norm_weight", "self_attention.linear_qkv.layer_norm_weight">>,
      <<"self_attn_norm_bias", "self_attention.linear_qkv.layer_norm_bias">>,
      <<"self_attn_qkv_weight", "self_attention.linear_qkv.weight">>,
      <<"self_attn_qkv_bias", "self_attention.linear_qkv.bias">>,
      <<"self_attn_proj_weight", "self_attention.linear_proj.weight">>,
      <<"self_attn_proj_bias", "self_attention.linear_proj.bias">>,
      <<"self_attn_q_layernorm_weight", "self_attention.q_layernorm.weight">>,
      <<"self_attn_q_layernorm_bias", "self_attention.q_layernorm.bias">>,
      <<"self_attn_k_layernorm_weight", "self_attention.k_layernorm.weight">>,
      <<"self_attn_k_layernorm_bias", "self_attention.k_layernorm.bias">>,
      <<"mlp_norm_weight", "pre_mlp_layernorm.weight">>,
      <<"mlp_norm_bias", "pre_mlp_layernorm.bias">>,
      <<"router_weight", "mlp.router.weight">> }
    \cup ExpertEntries("mlp_fc1_weight", "linear_fc1.weight", num_local_experts)
    \cup ExpertEntries("mlp_fc2_weight", "linear_fc2.weight", num_local_experts)
    \cup ExpertEntries("mlp_xielu_alpha_p", "activation_func.alpha_p.weight",
                       num_local_experts)
    \cup ExpertEntries("mlp_xielu_alpha_n", "activation_func.alpha_n.weight",
                       num_local_experts)

\* Mutant: every expert taken as local, whatever the expert parallel size.
NumLocalExperts_Global(num_experts, expert_model_parallel_size) == num_experts

\* CoreMoETESchema.__init__: num_local_experts = num_experts // ep size.
NumLocalExperts(num_experts, expert_model_parallel_size) ==
    num_experts \div expert_model_parallel_size

\* Mutant: the MoE variant returned without the two assertions.
get_model_schema_Unchecked(model_type, transformer_impl, num_experts, ep_size) ==
    IF num_experts # None /\ num_experts > 0
    THEN [ok |-> TRUE,
          schema |-> [cls |-> "CoreMoETESchema",
                      num_local_experts |->
                          IF ep_size = None THEN 0
                          ELSE num_experts \div ep_size]]
    ELSE [ok |-> TRUE,
          schema |-> [cls |-> IF transformer_impl = "local"
                              THEN "CoreLocalSchema" ELSE "CoreTESchema",
                      num_local_experts |-> 0]]

\* get_model_schema: the class chosen, or the assertion that fails.
get_model_schema(model_type, transformer_impl, num_experts, ep_size) ==
    IF num_experts # None /\ num_experts > 0
    THEN IF transformer_impl # "transformer_engine" \/ ep_size = None
         THEN [ok |-> FALSE, schema |-> NoSchema]
         ELSE [ok |-> TRUE,
               schema |-> [cls |-> "CoreMoETESchema",
                           num_local_experts |->
                               NumLocalExperts(num_experts, ep_size)]]
    ELSE [ok |-> TRUE,
          schema |-> [cls |-> IF transformer_impl = "local"
                              THEN "CoreLocalSchema" ELSE "CoreTESchema",
                      num_local_experts |-> 0]]

\* schema["layer"] of a schema object.
LayerSchema(sch) ==
    IF sch.cls = "CoreMoETESchema"
    THEN CoreMoETESchemaLayer(sch.num_local_experts)
    ELSE IF sch.cls = "CoreLocalSchema" THEN CoreLocalSchemaLayer
    ELSE CoreTESchemaLayer

\* ModelSchema.get_layer: a mapping whose keys are the roles of the table.
get_layer_keys(sch) == { e[1] : e \in LayerSchema(sch) }

\* ModelSchema.get_num_layers: the number of layers the model chunk holds.
get_num_layers(model) == model.num_layers

(***************************************************************************)
(* The items put on the queue.                                             *)
(***************************************************************************)
ExitItem == [kind |-> "sentinel", name |-> "exit"]
DoneItem == [kind |-> "sentinel", name |-> "done"]

MetadataItem(m) == [kind |-> "metadata", name |-> "metadata", md |-> m]

\* queue_put(name, msg): msg["name"] = name; keys are the field labels of
\* msg, src the (pp, vp) coordinate of the model set msg was read from.
Message(name, keys, ms) ==
    [kind |-> "message", name |-> name, keys |-> keys,
     src |-> <<ms[1].pp, ms[1].vp>>]

LayerName(total_layer_num) ==
    "transformer layer " \o ToString(total_layer_num)

\* The roles the layer loop reads with layer[...] (a KeyError when the
\* mapping returned by get_layer lacks one), lines 302-346.
LayerSubscripts(m) ==
    {"self_attn_norm_weight", "mlp_norm_weight"}
    \cup (IF m.norm_has_bias
          THEN {"self_attn_norm_bias", "mlp_norm_bias"} ELSE {})
    \cup (IF m.linear_bias
          THEN {"self_attn_proj_bias", "mlp_fc2_bias"} ELSE {})
    \cup {"self_attn_qkv_weight", "self_attn_proj_weight",
          "mlp_fc1_weight", "mlp_fc2_weight"}
    \cup (IF m.qkv_bias THEN {"self_attn_qkv_bias"} ELSE {})
    \cup (IF m.linear_bias THEN {"mlp_fc1_bias"} ELSE {})

\* Mutant: the bias labels written whatever the flags.
LayerMessageKeys_AllBiases(m) ==
    { "input norm weight", "post norm weight", "input norm bias",
      "post norm bias", "dense bias", "mlp l1 bias", "qkv weight",
      "dense weight", "mlp l1 weight", "qkv bias" }
    \cup (IF m.swiglu
          THEN {"mlp l0 weight W", "mlp l0 weight V",
                "mlp l0 bias W", "mlp l0 bias V"}
          ELSE {"mlp l0 weight", "mlp l0 bias"})

\* The field labels of one transformer-layer message, lines 303-371, for a
\* model without query/key layer norm and without xielu parameters.
LayerMessageKeys(m) ==
    {"input norm weight", "post norm weight"}
    \cup (IF m.norm_has_bias
          THEN {"input norm bias", "post norm bias"} ELSE {})
    \cup (IF m.linear_bias THEN {"dense bias", "mlp l1 bias"} ELSE {})
    \cup (IF m.swiglu
          THEN {"mlp l0 weight W", "mlp l0 weight V"}
          ELSE {"mlp l0 weight"})
    \cup {"qkv weight", "dense weight", "mlp l1 weight"}
    \cup (IF m.qkv_bias THEN {"qkv bias"} ELSE {})
    \cup (IF m.linear_bias
          THEN IF m.swiglu
               THEN {"mlp l0 bias W", "mlp l0 bias V"}
               ELSE {"mlp l0 bias"}
          ELSE {})

\* Building one layer message from the current model set.
LayerMessage(sch, m, ms, total_layer_num) ==
    IF LayerSubscripts(m) \subseteq get_layer_keys(sch)
    THEN [ok |-> TRUE,
          item |-> Message(LayerName(total_layer_num), LayerMessageKeys(m), ms)]
    ELSE [ok |-> FALSE, item |-> ExitItem]

\* Mutant: the assertion of line 285 is dropped.
EmbeddingsOk_Unchecked(m, ms) == TRUE

\* Lines 282-285: with learned absolute positions the table of rank 0 is
\* sent; otherwise embeddings[0]["pos"] must be None.
EmbeddingsOk(m, ms) ==
    m.position_embedding_type = "learned_absolute" \/ ~ms[1].pos

EmbeddingsKeys(m) ==
    {"word embeddings"}
    \cup (IF m.position_embedding_type = "learned_absolute"
          THEN {"position embeddings"} ELSE {})

FinalNormKeys(m) ==
    {"weight"} \cup (IF m.norm_has_bias THEN {"bias"} ELSE {})

LmHeadKeys(m) ==
    {"dense weight", "dense bias", "norm weight"}
    \cup (IF m.norm_has_bias THEN {"norm bias"} ELSE {})

(***************************************************************************)
(* Tensors and the merges of the tensor-parallel copies.  A vector is a    *)
(* sequence of entries, a matrix a sequence of rows (axis 0) of entries    *)
(* (axis 1).                                                               *)
(***************************************************************************)
NoTensor == <<>>             \* None where the other values are tensors

RECURSIVE Concat(_)
Concat(seqs) == IF seqs = <<>> THEN <<>> ELSE Head(seqs) \o Concat(Tail(seqs))

\* torch.cat(tensors, dim=dim)
torch_cat(tensors, dim) ==
    IF dim = 0
    THEN Concat(tensors)
    ELSE [ i \in 1..Len(tensors[1]) |->
             Concat([ k \in 1..Len(tensors) |-> tensors[k][i] ]) ]

\* torch.chunk(input, chunks, dim=0): pieces of ceil(n / chunks) rows, the
\* last one shorter, and fewer than chunks pieces when n is too small.
torch_chunk(input, chunks) ==
    LET n == Len(input)
        size == (n + chunks - 1) \div chunks
        pieces == IF n = 0 THEN 0 ELSE (n + size - 1) \div size
    IN  [ k \in 1..pieces |->
            SubSeq(input, (k - 1) * size + 1,
                   IF k * size < n THEN k * size ELSE n) ]

\* Mutant: the copies concatenated in decreasing rank order.
RowParallel_Reversed(layers, role) ==
    torch_cat([ r \in 1..Len(layers) |-> layers[Len(layers) + 1 - r][role] ], 0)

\* Lines 337-346 and 359, 363, 356, 371: the copies of every rank, in rank
\* order, concatenated along axis 0.
RowParallel(layers, role) ==
    torch_cat([ r \in 1..Len(layers) |-> layers[r][role] ], 0)

\* Mutant: the column-parallel weights concatenated along axis 0.
ColumnParallel_Axis0(layers, role) ==
    torch_cat([ r \in 1..Len(layers) |-> layers[r][role] ], 0)

\* Lines 360-361: the copies of every rank concatenated along axis 1.
ColumnParallel(layers, role) ==
    torch_cat([ r \in 1..Len(layers) |-> layers[r][role] ], 1)

\* Mutant: the halves of each copy taken in the other order.
GatedHalf_Swapped(layers, tp_size, role, half) ==
    torch_cat([ r \in 1..tp_size |->
                  torch_chunk(layers[r][role], 2)[3 - half] ], 0)

\* Lines 351-354 and 366-369: each copy is chunked in two along axis 0 and
\* the half-th pieces (1: W, 2: V) are concatenated in rank order.
GatedHalf(layers, tp_size, role, half) ==
    torch_cat([ r \in 1..tp_size |->
                  torch_chunk(layers[r][role], 2)[half] ], 0)

\* Mutant: the copy of the last tensor-parallel rank.
Rank0Copy_LastRank(layers, role) == layers[Len(layers)][role]

\* Lines 302-328: layer = schema.get_layer(models[0], layer_num).
Rank0Copy(layers, role) == layers[1][role]

\* Lines 312-328: the labels added when layer.get(role) is not None.
OptionalLabels(m, layer) ==
    (IF layer["self_attn_q_layernorm_weight"] # NoTensor
     THEN {"q norm weight"}
          \cup (IF m.norm_has_bias THEN {"q norm bias"} ELSE {})
     ELSE {})
    \cup (IF layer["self_attn_k_layernorm_weight"] # NoTensor
          THEN {"k norm weight"}
               \cup (IF m.norm_has_bias THEN {"k norm bias"} ELSE {})
          ELSE {})
    \cup (IF layer["mlp_xielu_alpha_p"] # NoTensor
          THEN {"mlp xielu alpha p"} ELSE {})
    \cup (IF layer["mlp_xielu_alpha_n"] # NoTensor
          THEN {"mlp xielu alpha n"} ELSE {})

\* Lines 303-371: the tensor stored under one label of the layer message.
LayerTensor(layers, tp_size, label) ==
    CASE label = "input norm weight" -> Rank0Copy(layers, "self_attn_norm_weight")
      [] label = "post norm weight" -> Rank0Copy(layers, "mlp_norm_weight")
      [] label = "input norm bias" -> Rank0Copy(layers, "self_attn_norm_bias")
      [] label = "post norm bias" -> Rank0Copy(layers, "mlp_norm_bias")
      [] label = "dense bias" -> Rank0Copy(layers, "self_attn_proj_bias")
      [] label = "mlp l1 bias" -> Rank0Copy(layers, "mlp_fc2_bias")
      [] label = "q norm weight" ->
            Rank0Copy(layers, "self_attn_q_layernorm_weight")
      [] label = "q norm bias" ->
            Rank0Copy(layers, "self_attn_q_layernorm_bias")
      [] label = "k norm weight" ->
            Rank0Copy(layers, "self_attn_k_layernorm_weight")
      [] label = "k norm bias" ->
            Rank0Copy(layers, "self_attn_k_layernorm_bias")
      [] label = "mlp xielu alpha p" -> Rank0Copy(layers, "mlp_xielu_alpha_p")
      [] label = "mlp xielu alpha n" -> Rank0Copy(layers, "mlp_xielu_alpha_n")
      [] label = "mlp l0 weight W" ->
            GatedHalf(layers, tp_size, "mlp_fc1_weight", 1)
      [] label = "mlp l0 weight V" ->
            GatedHalf(layers, tp_size, "mlp_fc1_weight", 2)
      [] label = "mlp l0 weight" -> RowParallel(layers, "mlp_fc1_weight")
      [] label = "qkv weight" -> RowParallel(layers, "self_attn_qkv_weight")
      [] label = "dense weight" ->
            ColumnParallel(layers, "self_attn_proj_weight")
      [] label = "mlp l1 weight" -> ColumnParallel(layers, "mlp_fc2_weight")
      [] label = "qkv bias" -> RowParallel(layers, "self_attn_qkv_bias")
      [] label = "mlp l0 bias W" ->
            GatedHalf(layers, tp_size, "mlp_fc1_bias", 1)
      [] label = "mlp l0 bias V" ->
            GatedHalf(layers, tp_size, "mlp_fc1_bias", 2)
      [] label = "mlp l0 bias" -> RowParallel(layers, "mlp_fc1_bias")

\* Lines 299-371: the message of one layer, from the mappings get_layer
\* returned for the models of the tensor-parallel ranks.
LayerTensors(m, layers, tp_size) ==
    [ label \in LayerMessageKeys(m) \cup OptionalLabels(m, layers[1]) |->
        LayerTensor(layers, tp_size, label) ]

\* Lines 278-286: the embeddings message; the assertion of line 285 fails
\* when a position table exists without learned absolute positions.
EmbeddingsTensors(m, embeddings) ==
    IF m.position_embedding_type = "learned_absolute"
    THEN [ok |-> TRUE,
          message |-> [ label \in {"word embeddings", "position embeddings"} |->
                          IF label = "word embeddings"
                          THEN RowParallel(embeddings, "word")
                          ELSE Rank0Copy(embeddings, "pos") ]]
    ELSE IF embeddings[1]["pos"] = NoTensor
    THEN [ok |-> TRUE,
          message |-> [ label \in {"word embeddings"} |->
                          RowParallel(embeddings, "word") ]]
    ELSE [ok |-> FALSE, message |-> NoTensor]

\* Lines 378-383: final_norm = schema.get("final_norm", models[0]).
FinalNormTensors(m, final_norms) ==
    [ label \in FinalNormKeys(m) |-> Rank0Copy(final_norms, label) ]

\* Lines 388-391: the output layer weights of every rank, along axis 0.
OutputLayerTensors(output_layer_ranks) ==
    [ label \in {"weight"} |-> RowParallel(output_layer_ranks, "weight") ]

(***************************************************************************)
(* The merge and schema functions on their own: the arguments of a call    *)
(* are the per-rank copies a tensor-parallel checkpoint of a known full    *)
(* tensor holds, and the step applies the function to them.                *)
(***************************************************************************)
Bits(n) == [ 1..n -> {0, 1} ]

\* The indices along axis 1 of the matrices used.
Axis1 == 1..2

\* A full matrix of Len(bits) rows, and a full vector of Len(bits) entries,
\* whose content is the role and the bits.
FullMatrix(role, bits) ==
    [ i \in 1..Len(bits) |-> [ j \in Axis1 |-> <<role, bits[i], j>> ] ]

FullVector(role, bits) == [ i \in 1..Len(bits) |-> <<role, bits[i]>> ]

Transposed(matrix) ==
    [ j \in 1..Len(matrix[1]) |-> [ i \in 1..Len(matrix) |-> matrix[i][j] ] ]

\* The full matrix of a column-parallel role: Len(bits) entries on axis 1.
FullColumnMatrix(role, bits) == Transposed(FullMatrix(role, bits))

\* The equal parts held by the n tensor-parallel ranks, in rank order.
SplitAxis0(tensor, n) ==
    LET h == Len(tensor) \div n
    IN  [ r \in 1..n |-> SubSeq(tensor, (r - 1) * h + 1, r * h) ]

SplitAxis1(matrix, n) ==
    [ r \in 1..n |-> [ i \in 1..Len(matrix) |-> SplitAxis0(matrix[i], n)[r] ] ]

\* The copy rank r (from 1) holds of a replicated tensor: the same on all
\* ranks, or (skew) differing from rank to rank.
Replica(role, r, skew) == << <<role, IF skew THEN r ELSE 1>> >>

\* The names of the gate and value halves of a gated role.
GateOf(role) == role \o ".W"
ValueOf(role) == role \o ".V"

\* What rank r holds for a row-parallel role, gated or not.
RowShard(full, gated, role, bits, n, r) ==
    IF gated
    THEN SplitAxis0(full[GateOf(role)], n)[r]
         \o SplitAxis0(full[ValueOf(role)], n)[r]
    ELSE SplitAxis0(full[role], n)[r]

\* The full tensors a checkpoint was written from.
FullTensors(bits) ==
    [ role \in { "self_attn_qkv_weight", "mlp_fc1_weight",
                 GateOf("mlp_fc1_weight"), ValueOf("mlp_fc1_weight"),
                 "self_attn_qkv_bias", "mlp_fc1_bias",
                 GateOf("mlp_fc1_bias"), ValueOf("mlp_fc1_bias"),
                 "self_attn_proj_weight", "mlp_fc2_weight",
                 "word", "weight" } |->
        IF role \in {"self_attn_qkv_bias", "mlp_fc1_bias",
                     GateOf("mlp_fc1_bias"), ValueOf("mlp_fc1_bias")}
        THEN FullVector(role, bits)
        ELSE IF role \in {"self_attn_proj_weight", "mlp_fc2_weight"}
        THEN FullColumnMatrix(role, bits)
        ELSE FullMatrix(role, bits) ]

\* The mapping get_layer returns for the model of rank r: every role of
\* the dense layer table, None for the parameters the model does not have.
ShardLayer(m, bits, n, r, skew, extras) ==
    LET full == FullTensors(bits)
        has(role) ==
            CASE role \in {"self_attn_norm_bias", "mlp_norm_bias"} ->
                    m.norm_has_bias
              [] role \in {"self_attn_q_layernorm_weight",
                           "self_attn_k_layernorm_weight",
                           "mlp_xielu_alpha_p", "mlp_xielu_alpha_n"} -> extras
              [] role \in {"self_attn_q_layernorm_bias",
                           "self_attn_k_layernorm_bias"} ->
                    extras /\ m.norm_has_bias
              [] role \in {"self_attn_proj_bias", "mlp_fc1_bias",
                           "mlp_fc2_bias"} -> m.linear_bias
              [] role = "self_attn_qkv_bias" -> m.qkv_bias
              [] OTHER -> TRUE
    IN  [ role \in get_layer_keys([cls |-> "CoreTESchema",
                                   num_local_experts |-> 0]) |->
            IF ~has(role) THEN NoTensor
            ELSE CASE role \in {"self_attn_qkv_weight", "self_attn_qkv_bias"} ->
                        RowShard(full, FALSE, role, bits, n, r)
                   [] role \in {"mlp_fc1_weight", "mlp_fc1_bias"} ->
                        RowShard(full, m.swiglu, role, bits, n, r)
                   [] role \in {"self_attn_proj_weight", "mlp_fc2_weight"} ->
                        SplitAxis1(full[role], n)[r]
                   [] OTHER -> Replica(role, r, skew) ]

\* The flags of the metadata a merge reads.
MergeFlags ==
    [ linear_bias : BOOLEAN, qkv_bias : BOOLEAN, norm_has_bias : BOOLEAN,
      swiglu : BOOLEAN ]

\* The bit patterns of the full tensors n ranks hold in equal parts.
SplitBits(n) == UNION { Bits(n * h) : h \in 1..MaxRows }

\* The calls of the layer merge over n tensor-parallel ranks.
LayerCallsOf(n) ==
    { [ fn |-> "layer", md |-> m, tp_size |-> n, bits |-> b, skew |-> s,
        extras |-> x,
        copies |-> [ r \in 1..n |-> ShardLayer(m, b, n, r, s, x) ] ] :
        m \in MergeFlags, s \in BOOLEAN, x \in BOOLEAN, b \in SplitBits(n) }

\* The calls of the embeddings merge: a position table exists or not.
EmbeddingsCallsOf(n) ==
    { [ fn |-> "embeddings", md |-> [position_embedding_type |-> t],
        tp_size |-> n, bits |-> b, skew |-> s,
        copies |-> [ r \in 1..n |->
                      [ word |-> SplitAxis0(FullTensors(b)["word"], n)[r],
                        pos |-> IF p THEN Replica("pos", r, s)
                                ELSE NoTensor ] ] ] :
        t \in {"learned_absolute", "rope"}, p \in BOOLEAN, s \in BOOLEAN,
        b \in SplitBits(n) }

\* The calls of the final norm extraction.
FinalNormCallsOf(n) ==
    { [ fn |-> "final_norm", md |-> [norm_has_bias |-> nb], tp_size |-> n,
        skew |-> s,
        copies |-> [ r \in 1..n |->
                      [ weight |-> Replica("weight", r, s),
                        bias |-> IF nb THEN Replica("bias", r, s)
                                 ELSE NoTensor ] ] ] :
        nb \in BOOLEAN, s \in BOOLEAN }

\* The calls of the output layer merge.
OutputLayerCallsOf(n) ==
    { [ fn |-> "output_layer", tp_size |-> n, bits |-> b,
        copies |-> [ r \in 1..n |->
                      [ weight |-> SplitAxis0(FullTensors(b)["weight"], n)[r] ] ] ] :
        b \in SplitBits(n) }

\* The calls of get_model_schema.
SchemaCalls ==
    { [ fn |-> "get_model_schema", model_type |-> t, transformer_impl |-> i,
        num_experts |-> e, expert_model_parallel_size |-> ep ] :
        t \in {"GPT", "BERT"}, i \in {"local", "transformer_engine"},
        e \in {None} \cup (0..MaxExperts),
        ep \in {None} \cup (1..MaxExperts) }

\* The calls for a checkpoint of n tensor-parallel ranks.
CallsOf(n) ==
    LayerCallsOf(n) \cup EmbeddingsCallsOf(n) \cup FinalNormCallsOf(n)
    \cup OutputLayerCallsOf(n) \cup SchemaCalls

(***************************************************************************)
(* The pieces of _load_checkpoint.                                         *)
(***************************************************************************)
\* Mutant: "if default:" in place of "if default is not None:".
check_for_arg_Truthy(m, arg_name, default) ==
    IF arg_name \in m.unset
    THEN IF default = "True"
         THEN [exit |-> FALSE,
               margs |-> [m EXCEPT !.unset = @ \ {arg_name},
                                   ![arg_name] = TRUE]]
         ELSE [exit |-> TRUE, margs |-> m]
    ELSE [exit |-> FALSE, margs |-> m]

\* check_for_arg(arg_name, default): default is "None" or the literal given.
check_for_arg(m, arg_name, default) ==
    IF arg_name \in m.unset
    THEN IF default # "None"
         THEN [exit |-> FALSE,
               margs |-> [m EXCEPT !.unset = @ \ {arg_name},
                                   ![arg_name] = (default = "True")]]
         ELSE [exit |-> TRUE, margs |-> m]
    ELSE [exit |-> FALSE, margs |-> m]

DefaultOf(arg_name) == IF arg_name \in DefaultedArgs THEN "False" ELSE "None"

\* The calls of lines 112-126 from the i-th on.
RECURSIVE check_args_from(_, _)
check_args_from(m, i) ==
    IF i > Len(CheckedArgs)
    THEN [exit |-> FALSE, margs |-> m]
    ELSE LET r == check_for_arg(m, CheckedArgs[i], DefaultOf(CheckedArgs[i]))
         IN  IF r.exit THEN r ELSE check_args_from(r.margs, i + 1)

\* Lines 199-210: the true vocabulary size, or the exit of line 207.
TrueVocabSize(a) ==
    IF a.true_vocab_size # None
    THEN [exit |-> FALSE, size |-> a.true_vocab_size]
    ELSE IF a.vocab_file # None
         THEN IF a.true_vocab_size # None /\ a.vocab_file # a.true_vocab_size
              THEN [exit |-> TRUE, size |-> a.vocab_file]
              ELSE [exit |-> FALSE, size |-> a.vocab_file]
         ELSE [exit |-> FALSE, size |-> None]

\* Mutant: the guard read as tp_size == pp_size == vp_size == 1.
TestLogitsGuard_PpToo(a, tp_size, pp_size, vp_size) ==
    a.test_logits =>
       (tp_size = 1 /\ pp_size = 1 /\ vp_size = 1 /\ a.model_type = "GPT")

\* Lines 219-221: assert tp_size == vp_size == vp_size == 1, then
\* assert args.model_type == "GPT"; pp_size is not read.
TestLogitsGuard(a, tp_size, pp_size, vp_size) ==
    a.test_logits => (tp_size = 1 /\ vp_size = 1 /\ a.model_type = "GPT")

\* Lines 223-253 (consumed_*_samples are set at lines 260-261).
Metadata(a, m, true_vocab_size) ==
    [ model_type |-> a.model_type,
      num_layers |-> m.num_layers,
      bert_binary_head |-> m.bert_binary_head,
      output_layer |-> m.untie_embeddings_and_output_weights,
      position_embedding_type |-> m.position_embedding_type,
      linear_bias |-> m.add_bias_linear,
      qkv_bias |-> m.add_qkv_bias,
      norm_has_bias |-> (m.normalization = "LayerNorm"),
      swiglu |-> m.swiglu,
      previous_tensor_parallel_size |-> m.tensor_model_parallel_size,
      previous_pipeline_parallel_size |-> m.pipeline_model_parallel_size,
      true_vocab_size |-> true_vocab_size,
      consumed_train_samples |-> None,
      consumed_valid_samples |-> None ]

\* Mutant: a bare except, which catches SystemExit too.
CaughtByHandler_Bare(type) ==
    type \in {"Exception", "AssertionError", "KeyError", "SystemExit"}

\* Mutant: the handler re-raises without putting "exit".
HandlerPuts_Silent(type) == <<>>

\* except Exception: the exception types the handler of load_checkpoint
\* catches.  exit(1) raises SystemExit, which is not an Exception.
CaughtByHandler(type) == type \in {"Exception", "AssertionError", "KeyError"}

\* Lines 469-471: what the handler puts before it re-raises.
HandlerPuts(type) == IF CaughtByHandler(type) THEN <<ExitItem>> ELSE <<>>

\* Mutant: a stage is loaded again on every virtual-pipeline pass.
LoadsStage_Always(vp_rank) == TRUE

\* Line 295: a stage is loaded on the first virtual-pipeline pass only.
LoadsStage(vp_rank) == vp_rank = 0

\* model_provider(pre_process, post_process): the model chunk of one
\* (pp, vp, tp) coordinate; its layers are num_layers / (pp_size * vp_size),
\* and a chunk of the first stage may hold a position table.
ProvidedModel(m, pp, vp, tp) ==
    [ pp |-> pp, vp |-> vp, tp |-> tp,
      pos |-> (m.position_table /\ pp = 0 /\ vp = 0),
      num_layers |-> m.num_layers \div
          (m.pipeline_model_parallel_size
             * VpOr1(m.virtual_pipeline_model_parallel_size)) ]

\* Lines 154-170: model_, the chunks of one tensor-parallel rank.
ModelsOfRank(m, pp, tp) ==
    [ i \in 1..VpOr1(m.virtual_pipeline_model_parallel_size) |->
        ProvidedModel(m, pp, i - 1, tp) ]

\* Mutant: get_models called for one rank.
get_models_count_One(m) == 1

\* Lines 257 and 296: get_models(tp_size, ...), the ranks of line 152.
get_models_count(m) == m.tensor_model_parallel_size

\* Mutant: the assertions of lines 177 and 181 are dropped.
ConsumedOk_Unchecked(seen, reported) == TRUE

\* Lines 176-183: the first counter seen is kept, a later one must agree.
ConsumedOk(seen, reported) == seen = None \/ reported = seen

ConsumedNext(seen, reported) == IF seen = None THEN reported ELSE seen

\* Line 149: models = [[] for _ in range(model_array_len)].
EmptyModels(m) ==
    [ v \in 1..VpOr1(m.virtual_pipeline_model_parallel_size) |-> <<>> ]

\* Lines 184-185: models[vp_rank].append(model_[vp_rank]).
AppendRank(ms, model_) == [ v \in 1..Len(ms) |-> Append(ms[v], model_[v]) ]

\* Mutant: the last chunk of the stage instead of the first.
FirstModelSet_LastChunk(am) == am[1][Len(am[1])]

\* Line 258, and line 297 on entry into the loops: all_models[0][0].
FirstModelSet(am) == am[1][1]

\* Mutant: the stages loaded before are released when a stage is loaded.
AppendStage_Release(am, ms) ==
    [ i \in 1..(Len(am) + 1) |-> IF i <= Len(am) THEN <<>> ELSE ms ]

\* Line 296: all_models.append(get_models(...)).
AppendStage(am, ms) == Append(am, ms)

\* Mutant: the layer counter is not advanced.
NextTotalLayerNum_Stuck(n) == n

\* Mutant: the layer counter advanced by two.
NextTotalLayerNum_ByTwo(n) == n + 2

\* Line 375.
NextTotalLayerNum(n) == n + 1

\* The optional messages that follow "final norm", lines 386-426.
AfterBertHeads(a) == IF a.test_logits THEN "logits" ELSE "done"

AfterLmHead(a, m) ==
    IF m.bert_binary_head THEN "binary_head" ELSE AfterBertHeads(a)

\* Mutant: the task heads sent whatever the model type.
AfterOutputLayer_AlwaysHeads(a, m) == "pooler"

AfterOutputLayer(a, m) ==
    IF m.model_type = "BERT" THEN "pooler" ELSE AfterBertHeads(a)

\* Mutant: the output layer is never sent.
AfterFinalNorm_NoOutputLayer(a, m) == AfterOutputLayer(a, m)

\* Mutant: the output layer sent whatever the flag.
AfterFinalNorm_AlwaysOutputLayer(a, m) == "output_layer"

AfterFinalNorm(a, m) ==
    IF m.output_layer THEN "output_layer" ELSE AfterOutputLayer(a, m)

(***************************************************************************)
(* Actions.                                                                *)
(***************************************************************************)
Init ==
    /\ pc = "import"
    /\ args \in GeometryArgs \cup ConfigArgs \cup EmbeddingArgs
    /\ margs = NoMargs
    /\ md = NoMd
    /\ consumed_train_samples = None
    /\ consumed_valid_samples = None
    /\ mpu = NoMpu
    /\ gm = NoGm
    /\ all_models = <<>>
    /\ models = <<>>
    /\ schema = NoSchema
    /\ loop = NoLoop
    /\ queue = <<>>
    /\ received = <<>>
    /\ trace = <<>>
    /\ exc = NoExc
    /\ call = NoCall
    /\ result = NoResult

\* The frame of _load_checkpoint is left: its locals are gone.
ResetLocals ==
    /\ margs' = NoMargs
    /\ md' = NoMd
    /\ consumed_train_samples' = None
    /\ consumed_valid_samples' = None
    /\ gm' = NoGm
    /\ all_models' = <<>>
    /\ models' = <<>>
    /\ schema' = NoSchema
    /\ loop' = NoLoop

\* _load_checkpoint ends by raising an exception of this type at this place.
Raise(type, at) ==
    /\ pc' = "except"
    /\ exc' = [type |-> type, at |-> at]
    /\ ResetLocals

\* queue.put blocks while the queue is full.
CanPut == Len(queue) < MaxQueue

Put(item) ==
    /\ CanPut
    /\ queue' = Append(queue, item)
    /\ trace' = Append(trace, [op |-> "put", item |-> item])

\* Lines 43-57: the imports; a ModuleNotFoundError puts "exit" and exits.
ImportMegatron ==
    /\ pc = "import"
    /\ \E found \in BOOLEAN :
         IF found
         THEN /\ pc' = "parse"
              /\ UNCHANGED << locals, queue, trace, exc >>
         ELSE /\ Put(ExitItem)
              /\ Raise("SystemExit", "import")
    /\ UNCHANGED << args, mpu, received >>
    /\ UNCHANGED pure

\* Lines 81-100: parse_args, load_args_from_checkpoint, validate_args.
LoadArgs ==
    /\ pc = "parse"
    /\ \E m \in MargsChoices(args) :
         margs' = [m EXCEPT !.transformer_impl = args.loader_transformer_impl]
    /\ pc' = "check_args"
    /\ UNCHANGED << args, md, consumed_train_samples, consumed_valid_samples,
                    mpu, gm, all_models, models, schema, loop, queue,
                    received, trace, exc >>
    /\ UNCHANGED pure

\* Lines 112-126: the fifteen check_for_arg calls.
CheckArgs ==
    /\ pc = "check_args"
    /\ LET r == check_args_from(margs, 1)
       IN  IF r.exit
           THEN /\ Put(ExitItem)
                /\ Raise("SystemExit", "check_for_arg")
           ELSE /\ margs' = r.margs
                /\ pc' = "provider"
                /\ trace' = IF margs.unset = {} THEN trace
                            ELSE Append(trace, [op |-> "setattr",
                                                names |-> margs.unset])
                /\ UNCHANGED << md, consumed_train_samples,
                                consumed_valid_samples, gm, all_models,
                                models, schema, loop, queue, exc >>
    /\ UNCHANGED << args, mpu, received >>
    /\ UNCHANGED pure

\* Lines 129-136: the model provider of the model type.
SelectProvider ==
    /\ pc = "provider"
    /\ IF args.model_type \in {"GPT", "BERT"}
       THEN /\ pc' = "configure"
            /\ UNCHANGED << locals, exc >>
       ELSE Raise("Exception", "model_type")
    /\ UNCHANGED << args, mpu, queue, received, trace >>
    /\ UNCHANGED pure

\* Lines 192-258: vocabulary size, the test_logits guard, the metadata,
\* and the entry into get_models for pipeline stage 0.
Configure ==
    /\ pc = "configure"
    /\ LET v == TrueVocabSize(args)
           tp_size == margs.tensor_model_parallel_size
           pp_size == margs.pipeline_model_parallel_size
           vp_size == VpOr1(margs.virtual_pipeline_model_parallel_size)
       IN  IF v.exit
           THEN /\ Put(ExitItem)
                /\ Raise("SystemExit", "vocab")
                /\ UNCHANGED mpu
           ELSE IF ~TestLogitsGuard(args, tp_size, pp_size, vp_size)
           THEN /\ Raise("AssertionError", "test_logits")
                /\ UNCHANGED << mpu, queue, trace >>
           ELSE /\ md' = Metadata(args, margs, v.size)
                /\ mpu' = [mpu EXCEPT !.pp_rank = 0]
                /\ gm' = [rank |-> 0, models |-> EmptyModels(margs),
                          caller |-> "first_stage"]
                /\ pc' = "get_models"
                /\ UNCHANGED << margs, consumed_train_samples,
                                consumed_valid_samples, all_models, models,
                                schema, loop, queue, trace, exc >>
    /\ UNCHANGED << args, received >>
    /\ UNCHANGED pure

\* Lines 152-190: one iteration of the rank loop of get_models, and on the
\* last one the return to the caller (lines 257-261 or 296-297).
LoadShard ==
    /\ pc = "get_models"
    /\ \E rep \in SampleReports :
         LET rank == gm.rank
             vp == margs.virtual_pipeline_model_parallel_size
             model_ == ModelsOfRank(margs, mpu.pp_rank, rank)
             ms == AppendRank(gm.models, model_)
             train == ConsumedNext(consumed_train_samples, rep[1])
             valid == ConsumedNext(consumed_valid_samples, rep[2])
         IN  /\ mpu' = [mpu EXCEPT !.tp_rank = rank,
                                   !.vp_rank = IF vp = None THEN @ ELSE vp - 1]
             /\ trace' = Append(trace, [op |-> "load", pp |-> mpu.pp_rank,
                                        tp |-> rank, train |-> rep[1],
                                        valid |-> rep[2],
                                        pos |-> model_[1].pos,
                                        num_layers |-> get_num_layers(model_[1])])
             /\ IF ~ConsumedOk(consumed_train_samples, rep[1])
                   \/ ~ConsumedOk(consumed_valid_samples, rep[2])
                THEN Raise("AssertionError", "get_models")
                ELSE /\ consumed_train_samples' = train
                     /\ consumed_valid_samples' = valid
                     /\ UNCHANGED << margs, schema, exc >>
                     /\ IF rank + 1 < get_models_count(margs)
                        THEN /\ gm' = [gm EXCEPT !.rank = rank + 1,
                                                 !.models = ms]
                             /\ pc' = "get_models"
                             /\ UNCHANGED << md, all_models, models, loop >>
                        ELSE IF gm.caller = "first_stage"
                        THEN /\ gm' = NoGm
                             /\ all_models' = <<ms>>
                             /\ models' = FirstModelSet(all_models')
                             /\ md' = [md EXCEPT
                                         !.consumed_train_samples = train,
                                         !.consumed_valid_samples = valid]
                             /\ pc' = "put_md"
                             /\ UNCHANGED loop
                        ELSE /\ gm' = NoGm
                             /\ all_models' = AppendStage(all_models, ms)
                             /\ models' =
                                  all_models'[loop.pp_rank + 1][loop.vp_rank + 1]
                             /\ pc' = "layer"
                             /\ UNCHANGED << md, loop >>
    /\ UNCHANGED << args, queue, received >>
    /\ UNCHANGED pure

\* Line 262: queue.put(md).
PutMetadata ==
    /\ pc = "put_md"
    /\ Put(MetadataItem(md))
    /\ pc' = "schema"
    /\ UNCHANGED << args, locals, mpu, received, exc >>
    /\ UNCHANGED pure

\* Lines 270-275: get_model_schema.
ResolveSchema ==
    /\ pc = "schema"
    /\ LET r == get_model_schema(md.model_type, margs.transformer_impl,
                                 margs.num_experts,
                                 margs.expert_model_parallel_size)
       IN  IF r.ok
           THEN /\ schema' = r.schema
                /\ pc' = "embeddings"
                /\ UNCHANGED << margs, md, consumed_train_samples,
                                consumed_valid_samples, gm, all_models,
                                models, loop, exc >>
           ELSE Raise("AssertionError", "get_model_schema")
    /\ UNCHANGED << args, mpu, queue, received, trace >>
    /\ UNCHANGED pure

\* Lines 277-291: the "embeddings" message, and the entry into the layer
\* loop at vp_rank 0, pp_rank 0.
SendEmbeddings ==
    /\ pc = "embeddings"
    /\ IF ~EmbeddingsOk(md, models)
       THEN /\ Raise("AssertionError", "embeddings")
            /\ UNCHANGED << mpu, queue, trace >>
       ELSE /\ Put(Message("embeddings", EmbeddingsKeys(md), models))
            /\ loop' = [vp_rank |-> 0, pp_rank |-> 0, layer_num |-> 0,
                        total_layer_num |-> 0]
            /\ mpu' = [mpu EXCEPT !.vp_rank = 0]
            /\ models' = FirstModelSet(all_models)
            /\ pc' = "layer"
            /\ UNCHANGED << margs, md, consumed_train_samples,
                            consumed_valid_samples, gm, all_models, schema,
                            exc >>
    /\ UNCHANGED << args, received >>
    /\ UNCHANGED pure

\* Lines 298-375: one layer message; then the loop heads of lines 290-298
\* up to the next layer, the next get_models call, or the end of the loops.
SendLayer ==
    /\ pc = "layer"
    /\ LET r == LayerMessage(schema, md, models, loop.total_layer_num)
           pp_size == margs.pipeline_model_parallel_size
           vp_size == VpOr1(margs.virtual_pipeline_model_parallel_size)
           total == NextTotalLayerNum(loop.total_layer_num)
       IN  IF ~r.ok
           THEN /\ Raise("KeyError", "layer")
                /\ UNCHANGED << mpu, queue, trace >>
           ELSE /\ Put(r.item)
                /\ UNCHANGED << margs, md, consumed_train_samples,
                                consumed_valid_samples, schema, exc >>
                /\ IF loop.layer_num + 1 < get_num_layers(models[1])
                   THEN /\ loop' = [loop EXCEPT !.layer_num = @ + 1,
                                                !.total_layer_num = total]
                        /\ pc' = "layer"
                        /\ UNCHANGED << mpu, gm, all_models, models >>
                   ELSE IF loop.pp_rank + 1 < pp_size
                   THEN /\ loop' = [loop EXCEPT !.pp_rank = @ + 1,
                                                !.layer_num = 0,
                                                !.total_layer_num = total]
                        /\ mpu' = [mpu EXCEPT !.pp_rank = loop.pp_rank + 1]
                        /\ UNCHANGED all_models
                        /\ IF LoadsStage(loop.vp_rank)
                           THEN /\ gm' = [rank |-> 0,
                                          models |-> EmptyModels(margs),
                                          caller |-> "layer_loop"]
                                /\ pc' = "get_models"
                                /\ UNCHANGED models
                           ELSE /\ models' =
                                     all_models[loop.pp_rank + 2][loop.vp_rank + 1]
                                /\ pc' = "layer"
                                /\ UNCHANGED gm
                   ELSE IF loop.vp_rank + 1 < vp_size
                   THEN /\ loop' = [loop EXCEPT !.vp_rank = @ + 1,
                                                !.pp_rank = 0,
                                                !.layer_num = 0,
                                                !.total_layer_num = total]
                        /\ mpu' = [mpu EXCEPT !.vp_rank = loop.vp_rank + 1]
                        /\ models' = all_models[1][loop.vp_rank + 2]
                        /\ pc' = "layer"
                        /\ UNCHANGED << gm, all_models >>
                   ELSE /\ loop' = [loop EXCEPT !.total_layer_num = total]
                        /\ pc' = "final_norm"
                        /\ UNCHANGED << mpu, gm, all_models, models >>
    /\ UNCHANGED << args, received >>
    /\ UNCHANGED pure

\* A put of one of the messages after the layers, and the next position.
SendAfterLayers(at, item, next) ==
    /\ pc = at
    /\ Put(item)
    /\ pc' = next
    /\ UNCHANGED << args, locals, mpu, received, exc >>
    /\ UNCHANGED pure

\* Lines 377-384.
SendFinalNorm ==
    SendAfterLayers("final_norm", Message("final norm", FinalNormKeys(md), models),
                    AfterFinalNorm(args, md))

\* Lines 386-392.
SendOutputLayer ==
    SendAfterLayers("output_layer", Message("output layer", {"weight"}, models),
                    AfterOutputLayer(args, md))

\* Lines 397-403.
SendPooler ==
    SendAfterLayers("pooler", Message("pooler", {"weight", "bias"}, models),
                    "lm_head")

\* Lines 405-414.
SendLmHead ==
    SendAfterLayers("lm_head", Message("lm head", LmHeadKeys(md), models),
                    AfterLmHead(args, md))

\* Lines 416-423.
SendBinaryHead ==
    SendAfterLayers("binary_head",
                    Message("binary head", {"weight", "bias"}, models),
                    AfterBertHeads(args))

\* Lines 425-461.
SendLogits ==
    SendAfterLayers("logits",
                    Message("logits_check",
                            {"tokens", "position_ids", "attention_mask", "output"},
                            models),
                    "done")

\* Line 464: queue.put("done"), and the return of load_checkpoint.
SendDone ==
    /\ pc = "done"
    /\ Put(DoneItem)
    /\ pc' = "returned"
    /\ ResetLocals
    /\ UNCHANGED << args, mpu, received, exc >>
    /\ UNCHANGED pure

\* The positions inside the body of _load_checkpoint.
BodyPcs ==
    { "import", "parse", "check_args", "provider", "configure", "get_models",
      "put_md", "schema", "embeddings", "layer", "final_norm", "output_layer",
      "pooler", "lm_head", "binary_head", "logits", "done" }

\* Any other exception raised by a call made at this position (shard
\* loading, schema lookup, tensor merging).
Fault ==
    /\ pc \in BodyPcs
    /\ Raise("Exception", pc)
    /\ UNCHANGED << args, mpu, queue, received, trace >>
    /\ UNCHANGED pure

\* Lines 466-471: except Exception: queue.put("exit"); raise.
Handler ==
    /\ pc = "except"
    /\ IF HandlerPuts(exc.type) # <<>>
       THEN Put(HandlerPuts(exc.type)[1])
       ELSE UNCHANGED << queue, trace >>
    /\ pc' = "raised"
    /\ UNCHANGED << args, locals, mpu, received, exc >>
    /\ UNCHANGED pure

\* The sink takes the oldest item of the queue.
SinkGet ==
    /\ queue # <<>>
    /\ received' = Append(received, Head(queue))
    /\ queue' = Tail(queue)
    /\ UNCHANGED << pc, args, locals, mpu, trace, exc >>
    /\ UNCHANGED pure

Next ==
    \/ ImportMegatron
    \/ LoadArgs
    \/ CheckArgs
    \/ SelectProvider
    \/ Configure
    \/ LoadShard
    \/ PutMetadata
    \/ ResolveSchema
    \/ SendEmbeddings
    \/ SendLayer
    \/ SendFinalNorm
    \/ SendOutputLayer
    \/ SendPooler
    \/ SendLmHead
    \/ SendBinaryHead
    \/ SendLogits
    \/ SendDone
    \/ Fault
    \/ Handler
    \/ SinkGet

Spec == Init /\ [][Next]_vars

(***************************************************************************)
(* The functions applied on their own: one call, then its result.          *)
(***************************************************************************)
\* No run of the loader is under way.
Idle ==
    /\ pc = "idle"
    /\ args = PlainArgs
    /\ margs = NoMargs
    /\ md = NoMd
    /\ consumed_train_samples = None
    /\ consumed_valid_samples = None
    /\ mpu = NoMpu
    /\ gm = NoGm
    /\ all_models = <<>>
    /\ models = <<>>
    /\ schema = NoSchema
    /\ loop = NoLoop
    /\ queue = <<>>
    /\ received = <<>>
    /\ trace = <<>>
    /\ exc = NoExc

CallInit ==
    /\ Idle
    /\ \E n \in 1..MaxTP : call \in CallsOf(n)
    /\ result = NoResult

Returns(fn, value) ==
    /\ call.fn = fn
    /\ result = NoResult
    /\ result' = value
    /\ UNCHANGED << call, vars >>

\* Lines 299-371 of the loader.
MergeLayer ==
    Returns("layer",
            [fn |-> "layer", ok |-> TRUE,
             message |-> LayerTensors(call.md, call.copies, call.tp_size)])

\* Lines 278-286.
MergeEmbeddings ==
    Returns("embeddings",
            [fn |-> "embeddings"] @@ EmbeddingsTensors(call.md, call.copies))

\* Lines 378-383.
MergeFinalNorm ==
    Returns("final_norm",
            [fn |-> "final_norm", ok |-> TRUE,
             message |-> FinalNormTensors(call.md, call.copies)])

\* Lines 388-391.
MergeOutputLayer ==
    Returns("output_layer",
            [fn |-> "output_layer", ok |-> TRUE,
             message |-> OutputLayerTensors(call.copies)])

\* schema_core.get_model_schema.
CallGetModelSchema ==
    Returns("get_model_schema",
            [fn |-> "get_model_schema"]
            @@ get_model_schema(call.model_type, call.transformer_impl,
                                call.num_experts,
                                call.expert_model_parallel_size))

CallNext ==
    \/ MergeLayer
    \/ MergeEmbeddings
    \/ MergeFinalNorm
    \/ MergeOutputLayer
    \/ CallGetModelSchema

CallSpec == CallInit /\ [][CallNext]_<< vars, pure >>

\* The loader runs and the calls, side by side.
LoaderOrCallInit == Init \/ CallInit

LoaderOrCallNext == Next \/ CallNext

LoaderAndCalls == LoaderOrCallInit /\ [][LoaderOrCallNext]_<< vars, pure >>

(***************************************************************************)
(* Views of the history.                                                   *)
(***************************************************************************)
PutEvents == SelectSeq(trace, LAMBDA e : e.op = "put")

\* The items put on the queue, in order.
PutSeq == [ i \in 1..Len(PutEvents) |-> PutEvents[i].item ]

PutNames == [ i \in 1..Len(PutSeq) |-> PutSeq[i].name ]

IsPrefix(s, t) == Len(s) <= Len(t) /\ \A i \in 1..Len(s) : s[i] = t[i]

NotLayerNames ==
    { "metadata", "embeddings", "final norm", "output layer", "pooler",
      "lm head", "binary head", "logits_check", "exit", "done" }

IsLayerEvent(e) == e.op = "put" /\ e.item.name \notin NotLayerNames

\* Positions of the puts, of the layer messages and of the loads in trace.
PutIdx == { i \in 1..Len(trace) : trace[i].op = "put" }
LayerIdx == { i \in 1..Len(trace) : IsLayerEvent(trace[i]) }
LoadIdx == { i \in 1..Len(trace) : trace[i].op = "load" }
SentinelIdx == { i \in 1..Len(PutSeq) : PutSeq[i].kind = "sentinel" }
MetadataIdx == { i \in 1..Len(PutSeq) : PutSeq[i].kind = "metadata" }

LayerNames(n) == [ i \in 1..n |-> LayerName(i - 1) ]

\* The order of section 4.4 for the metadata m sent and the arguments a.
ExpectedNames(a, m) ==
    <<"metadata", "embeddings">>
    \o LayerNames(m.num_layers)
    \o <<"final norm">>
    \o (IF m.output_layer THEN <<"output layer">> ELSE <<>>)
    \o (IF m.model_type = "BERT"
        THEN <<"pooler", "lm head">>
             \o (IF m.bert_binary_head THEN <<"binary head">> ELSE <<>>)
        ELSE <<>>)
    \o (IF a.test_logits THEN <<"logits_check">> ELSE <<>>)
    \o <<"done">>

C2_LayerCount ==
    /\ \A i, j \in LayerIdx :
          (trace[i].item.name = trace[j].item.name) => (i = j)
    /\ (pc = "returned") =>
          LET n == PutSeq[1].md.num_layers
          IN  /\ Cardinality(LayerIdx) = n
              /\ \A k \in 0..(n - 1) :
                    \E i \in LayerIdx : trace[i].item.name = LayerName(k)

\* A complete run over the largest geometry of the model.
C2_Witness ==
    /\ pc = "returned"
    /\ PutSeq[1].md.num_layers = MaxPP * MaxVP * MaxLayersPerStage
    /\ Cardinality(LayerIdx) = MaxPP * MaxVP * MaxLayersPerStage

(***************************************************************************)
(* C3.  In every run the items put hold at most one sentinel, and a        *)
(* sentinel is the last item put: nothing follows "exit" or "done", and    *)
(* the two never both appear.                                              *)
(***************************************************************************)
C3_OneSentinelLast ==
    LET puts == PutSeq
        sentinels == { i \in 1..Len(puts) : puts[i].kind = "sentinel" }
    IN  /\ Cardinality(sentinels) <= 1
        /\ \A i \in sentinels : i = Len(puts)

\* check_for_arg put "exit" itself and left through exit(1).
C3_Witness ==
    /\ pc = "raised"
    /\ exc = [type |-> "SystemExit", at |-> "check_for_arg"]
    /\ PutNames = <<"exit">>

(***************************************************************************)
(* C4.  An exception raised inside _load_checkpoint is caught once by      *)
(* load_checkpoint, which puts "exit" and re-raises: once it has           *)
(* propagated the items put end with the only "exit", and "done" is never  *)
(* put, whatever was emitted before the fault.                             *)
(***************************************************************************)
C4_FaultEndsInExit ==
    (exc.type \in {"Exception", "AssertionError", "KeyError"}) =>
        LET puts == PutSeq
            sentinels == { i \in 1..Len(puts) : puts[i].kind = "sentinel" }
        IN  /\ pc \in {"except", "raised"}
            /\ \A i \in 1..Len(puts) : puts[i].name # "done"
            /\ (pc = "except") => (sentinels = {})
            /\ (pc = "raised") => (sentinels = {Len(puts)}
                                    /\ puts[Len(puts)] = ExitItem)

\* A fault after the layers were emitted.
C4_Witness ==
    /\ pc = "raised"
    /\ exc = [type |-> "Exception", at |-> "final_norm"]
    /\ Len(PutSeq) >= 4
    /\ PutSeq[Len(PutSeq)] = ExitItem

(***************************************************************************)
(* C5.  When --true-vocab-size is given and a vocabulary file is given     *)
(* whose entry count differs from it, the run is fatal: no metadata record *)
(* is put and the run does not complete.                                   *)
(***************************************************************************)
C5_VocabMismatchIsFatal ==
    (/\ args.true_vocab_size # None
     /\ args.vocab_file # None
     /\ args.vocab_file # args.true_vocab_size) =>
        (MetadataIdx = {} /\ pc # "returned")

\* A run given --true-vocab-size 5 and a vocabulary file of 6 entries has
\* completed, its metadata record carrying true_vocab_size 5.
C5_Witness ==
    /\ pc = "returned"
    /\ args.true_vocab_size = 5
    /\ args.vocab_file = 6
    /\ PutSeq[1].md.true_vocab_size = 5
    /\ PutSeq[Len(PutSeq)] = DoneItem

\* The step that runs the check_for_arg calls (and is not an injected fault).
CheckArgsStep ==
    /\ pc = "check_args"
    /\ pc' # "check_args"
    /\ exc'.type # "Exception"

(***************************************************************************)
(* C6.  The step of the check_for_arg calls: when an argument without a    *)
(* default is missing the producer puts "exit" and leaves through exit(1), *)
(* nothing else having been put and no shard loaded; when only arguments   *)
(* with a default are missing each is set to False and the run goes on     *)
(* without a fault.  A run ended by check_for_arg has put "exit" alone.    *)
(***************************************************************************)
C6_MissingArgs ==
    /\ [](exc.at = "check_for_arg" =>
            /\ exc.type = "SystemExit"
            /\ trace = << [op |-> "put", item |-> ExitItem] >>)
    /\ [][ CheckArgsStep =>
             IF margs.unset \subseteq DefaultedArgs
             THEN /\ pc' = "provider"
                  /\ exc' = NoExc
                  /\ margs'.unset = {}
                  /\ \A a \in margs.unset : margs'[a] = FALSE
                  /\ PutSeq' = <<>>
             ELSE /\ exc' = [type |-> "SystemExit", at |-> "check_for_arg"]
                  /\ trace' = << [op |-> "put", item |-> ExitItem] >> ]_vars

\* The sink has received the lone "exit" of a run stopped by check_for_arg.
C6_Witness ==
    /\ pc = "raised"
    /\ exc = [type |-> "SystemExit", at |-> "check_for_arg"]
    /\ received = <<ExitItem>>

\* A run whose checkpoint lacked swiglu and xielu has completed.
C6_WitnessDefault ==
    /\ pc = "returned"
    /\ \E i \in 1..Len(trace) :
          trace[i].op = "setattr" /\ trace[i].names = {"swiglu", "xielu"}


\* The first shard load of the run.
FirstLoad == trace[CHOOSE i \in LoadIdx : \A j \in LoadIdx : i <= j]

\* The load event e reports counters other than those of the load first.
DisagreesWith(e, first) ==
    \/ e.train # first.train
    \/ e.valid # first.valid

\* The load at position i reports counters other than the first ones seen.
Disagrees(i) == DisagreesWith(trace[i], FirstLoad)

(***************************************************************************)
(* C7.  A shard whose consumed-train or consumed-valid counter differs     *)
(* from the first values seen in the run ends the run: the assertion of    *)
(* get_models fails at once, nothing is put after that load but the final  *)
(* "exit", and the layer messages emitted are all of earlier pipeline      *)
(* stages.  The counters of the metadata record are those of the first     *)
(* load, which is tensor-parallel rank 0 of pipeline stage 0.              *)
(***************************************************************************)
C7_ConsumedSamplesAgree ==
    LET loads == LoadIdx
        layers == LayerIdx
        first == FirstLoad
    IN  /\ \A i \in loads :
              DisagreesWith(trace[i], first) =>
                  /\ exc = [type |-> "AssertionError", at |-> "get_models"]
                  /\ (pc = "except") => (i = Len(trace))
                  /\ (pc = "raised") =>
                        /\ i = Len(trace) - 1
                        /\ trace[Len(trace)]
                             = [op |-> "put", item |-> ExitItem]
                  /\ \A j \in layers :
                        j < i /\ trace[j].item.src[1] < trace[i].pp
        /\ \A i \in PutIdx :
              (trace[i].item.kind = "metadata") =>
                  /\ loads # {}
                  /\ first.pp = 0
                  /\ first.tp = 0
                  /\ trace[i].item.md.consumed_train_samples = first.train
                  /\ trace[i].item.md.consumed_valid_samples = first.valid

\* A shard of pipeline stage 1 disagreed after the layers of stage 0 were
\* emitted, and the run has ended in "exit".
C7_Witness ==
    /\ pc = "raised"
    /\ LayerIdx # {}
    /\ \E i \in LoadIdx : trace[i].pp = 1 /\ trace[i].tp = 1 /\ Disagrees(i)
    /\ PutSeq[Len(PutSeq)] = ExitItem

\* The model objects of a models[vp][tp] matrix.
ModelsIn(ms) ==
    UNION { { ms[v][t] : t \in 1..Len(ms[v]) } : v \in 1..Len(ms) }

\* The shard objects the producer holds: those of all_models and those of
\* the get_models call under way.
HeldModels ==
    UNION { ModelsIn(all_models[p]) : p \in 1..Len(all_models) }
    \cup ModelsIn(gm.models)

HeldStages == { x.pp : x \in HeldModels }

\* The stages all of whose tensor-parallel shards have been loaded.
LoadedStages(tp_size) ==
    { p \in 0..MaxPP :
        Cardinality({ i \in LoadIdx : trace[i].pp = p }) = tp_size }

\* What get_models returns for pipeline stage p.
StageModels(m, p) ==
    [ v \in 1..VpOr1(m.virtual_pipeline_model_parallel_size) |->
        [ t \in 1..m.tensor_model_parallel_size |->
            ProvidedModel(m, p, v - 1, t - 1) ] ]

\* The positions at which the shard matrix all_models is in use.
ExtractionPcs ==
    { "get_models", "put_md", "schema", "embeddings", "layer", "final_norm",
      "output_layer", "pooler", "lm_head", "binary_head", "logits", "done" }

C9_EachShardLoadedOnce ==
    /\ \A i, j \in LoadIdx :
          (trace[i].pp = trace[j].pp /\ trace[i].tp = trace[j].tp) => (i = j)
    /\ \A i \in LoadIdx :
          LET before == { j \in PutIdx : j < i }
              layers == { j \in LayerIdx : j < i }
          IN  IF trace[i].pp = 0
              THEN before = {}
              ELSE /\ \E j \in before : trace[j].item.kind = "metadata"
                   /\ Cardinality(layers) = trace[i].pp * trace[i].num_layers
                   /\ \A j \in layers :
                         /\ trace[j].item.src[2] = 0
                         /\ trace[j].item.src[1] < trace[i].pp
    /\ (pc = "returned") =>
          LET m == PutSeq[1].md
          IN  { <<trace[i].pp, trace[i].tp>> : i \in LoadIdx }
                = (0..(m.previous_pipeline_parallel_size - 1))
                  \X (0..(m.previous_tensor_parallel_size - 1))

\* A complete run of two stages and two virtual-pipeline passes: stage 1
\* was visited twice and each of the four shards loaded once.
C9_Witness ==
    /\ pc = "returned"
    /\ Cardinality(LoadIdx) = 4
    /\ \E j \in LayerIdx : trace[j].item.src = <<1, 1>>

\* The local experts e for which a message with these field labels carries
\* both expert weights (no label of a layer message is indexed by expert,
\* so the labels looked for are the role keys of the schema).
ExpertPairs(keys) ==
    { e \in 0..3 :
        /\ ("mlp_fc1_weight." \o ToString(e)) \in keys
        /\ ("mlp_fc2_weight." \o ToString(e)) \in keys }

(***************************************************************************)
(* C10.  With num_experts=4 and expert_parallel_size=2 the loader emits    *)
(* its transformer-layer messages, and each one carries exactly the two    *)
(* local-expert weight pairs 0 and 1, for every tensor-parallel size.      *)
(***************************************************************************)
C10_TwoLocalExperts ==
    (/\ pc = "layer"
     /\ margs.num_experts = 4
     /\ margs.expert_model_parallel_size = 2) =>
        LET r == LayerMessage(schema, md, models, loop.total_layer_num)
        IN  /\ r.ok
            /\ ExpertPairs(r.item.keys) = {0, 1}

\* The run over a checkpoint with num_experts=4 and expert parallel size 2
\* has ended in a KeyError of the layer loop: no layer message was put.
C10_Witness ==
    /\ pc = "raised"
    /\ exc = [type |-> "KeyError", at |-> "layer"]
    /\ schema = NoSchema
    /\ PutNames = <<"metadata", "embeddings", "exit">>
    /\ PutSeq[1].md.previous_tensor_parallel_size = MaxTP

\* The sum of the axis-0 sizes of the copies of a role.
RECURSIVE SumOfLens(_, _)
SumOfLens(copies, role) ==
    IF copies = <<>> THEN 0
    ELSE Len(Head(copies)[role]) + SumOfLens(Tail(copies), role)

\* The merged tensor is the full tensor the copies were split from, and
\* its axis-0 size is the sum of theirs.
RoundTrip(merged, copies, role, original) ==
    /\ merged = original
    /\ Len(merged) = SumOfLens(copies, role)

(***************************************************************************)
(* C11.  Row-parallel round trip: when the ranks hold, in rank order, the  *)
(* equal parts along axis 0 of a full tensor, the value emitted for "qkv   *)
(* weight", "qkv bias", the non-gated "mlp l0 weight" and "mlp l0 bias",   *)
(* "word embeddings" and the output layer "weight" is that full tensor,    *)
(* and its axis-0 size is the sum of the sizes of the parts.               *)
(***************************************************************************)
C11_RowParallelRoundTrip ==
    LET msg == result.message
        copies == call.copies
        full == FullTensors(call.bits)
    IN  /\ (result.fn = "layer") =>
              /\ RoundTrip(msg["qkv weight"], copies, "self_attn_qkv_weight",
                           full["self_attn_qkv_weight"])
              /\ call.md.qkv_bias =>
                    RoundTrip(msg["qkv bias"], copies, "self_attn_qkv_bias",
                              full["self_attn_qkv_bias"])
              /\ ~call.md.swiglu =>
                    RoundTrip(msg["mlp l0 weight"], copies, "mlp_fc1_weight",
                              full["mlp_fc1_weight"])
              /\ (~call.md.swiglu /\ call.md.linear_bias) =>
                    RoundTrip(msg["mlp l0 bias"], copies, "mlp_fc1_bias",
                              full["mlp_fc1_bias"])
        /\ (result.fn = "embeddings" /\ result.ok) =>
              RoundTrip(msg["word embeddings"], copies, "word", full["word"])
        /\ (result.fn = "output_layer") =>
              RoundTrip(msg["weight"], copies, "weight", full["weight"])

\* Two ranks holding different halves of a four-row tensor were merged,
\* the biases included.
C11_Witness ==
    /\ result.fn = "layer"
    /\ call.tp_size = 2
    /\ call.bits = <<0, 1, 1, 1>>
    /\ call.md.qkv_bias /\ call.md.linear_bias /\ ~call.md.swiglu
    /\ Len(result.message["qkv weight"]) = 4
    /\ call.copies[1]["self_attn_qkv_weight"]
         # call.copies[2]["self_attn_qkv_weight"]

(***************************************************************************)
(* C12.  Gated-activation round trip: with md.swiglu set and rank r        *)
(* holding [G_r ; V_r] for the first MLP linear (G and V of one shape,     *)
(* split in equal parts), the layer message has "mlp l0 weight W" equal to *)
(* G and "mlp l0 weight V" equal to V, likewise "mlp l0 bias W" and "mlp   *)
(* l0 bias V" when linear bias is on, and no single "mlp l0 weight";       *)
(* without the flag it has the single "mlp l0 weight" and no W/V label.    *)
(***************************************************************************)
C12_GatedRoundTrip ==
    (result.fn = "layer") =>
        LET msg == result.message
            labels == DOMAIN result.message
            full == FullTensors(call.bits)
            gated == { "mlp l0 weight W", "mlp l0 weight V",
                       "mlp l0 bias W", "mlp l0 bias V" }
        IN  IF call.md.swiglu
            THEN /\ msg["mlp l0 weight W"] = full[GateOf("mlp_fc1_weight")]
                 /\ msg["mlp l0 weight V"] = full[ValueOf("mlp_fc1_weight")]
                 /\ labels \cap {"mlp l0 weight", "mlp l0 bias"} = {}
                 /\ IF call.md.linear_bias
                    THEN /\ msg["mlp l0 bias W"]
                              = full[GateOf("mlp_fc1_bias")]
                         /\ msg["mlp l0 bias V"]
                              = full[ValueOf("mlp_fc1_bias")]
                    ELSE labels \cap {"mlp l0 bias W", "mlp l0 bias V"} = {}
            ELSE /\ "mlp l0 weight" \in labels
                 /\ labels \cap gated = {}

\* A gated layer of two ranks, each holding two gate and two value rows,
\* was merged with its biases.
C12_Witness ==
    /\ result.fn = "layer"
    /\ call.md.swiglu /\ call.md.linear_bias
    /\ call.tp_size = 2
    /\ call.bits = <<1, 0, 0, 0>>
    /\ Len(call.copies[2]["mlp_fc1_weight"]) = 4
    /\ Len(result.message["mlp l0 weight V"]) = 4

(***************************************************************************)
(* C13.  Column-parallel roles: with linear bias on, the layer message     *)
(* holds for "dense bias" and "mlp l1 bias" the copy of tensor-parallel    *)
(* rank 0, of the size of one copy whatever the number of ranks, and never *)
(* the concatenation of the copies; "dense weight" and "mlp l1 weight" are *)
(* the copies concatenated in rank order along axis 1, that is the full    *)
(* matrix the copies were split from.                                      *)
(***************************************************************************)
C13_ColumnParallelBias ==
    (result.fn = "layer") =>
        LET msg == result.message
            copies == call.copies
            full == FullTensors(call.bits)
            OneCopy(label, role) ==
                /\ msg[label] = copies[1][role]
                /\ Len(msg[label]) = Len(copies[1][role])
                /\ (call.tp_size > 1) =>
                      msg[label]
                        # Concat([ r \in 1..call.tp_size |-> copies[r][role] ])
            Axis1Merge(label, role) ==
                /\ msg[label] = full[role]
                /\ \A i \in 1..Len(msg[label]) :
                      Len(msg[label][i]) = Len(call.bits)
        IN  /\ call.md.linear_bias =>
                  /\ OneCopy("dense bias", "self_attn_proj_bias")
                  /\ OneCopy("mlp l1 bias", "mlp_fc2_bias")
            /\ Axis1Merge("dense weight", "self_attn_proj_weight")
            /\ Axis1Merge("mlp l1 weight", "mlp_fc2_weight")

\* Two ranks with differing bias copies and two columns each were merged.
C13_Witness ==
    /\ result.fn = "layer"
    /\ call.md.linear_bias
    /\ call.tp_size = 2
    /\ call.skew
    /\ call.bits = <<0, 0, 1, 1>>
    /\ call.copies[1]["mlp_fc2_bias"] # call.copies[2]["mlp_fc2_bias"]
    /\ Len(result.message["mlp l1 weight"][1]) = 4

\* The names of the task heads and of the items that end a run.
HeadNames == {"pooler", "lm head", "binary head"}

AfterOutputLayerNames == HeadNames \cup {"logits_check", "done", "exit"}

(***************************************************************************)
(* C14.  A complete fault-free run has put an "output layer" message if    *)
(* and only if the output_layer flag of its metadata is set (embeddings    *)
(* and output projection untied); in every run an "output layer" message   *)
(* comes right after "final norm", only when the flag is set, and no task  *)
(* head, "logits_check" or "done" item precedes it.                        *)
(***************************************************************************)
C14_OutputLayerIffUntied ==
    LET puts == PutSeq
        first == puts[1]
        names == [ i \in 1..Len(puts) |-> puts[i].name ]
        at == { i \in 1..Len(names) : names[i] = "output layer" }
    IN  /\ (pc = "returned") =>
              /\ first.kind = "metadata"
              /\ (at # {}) <=> first.md.output_layer
        /\ Cardinality(at) <= 1
        /\ \A i \in at :
              /\ i > 1
              /\ names[i - 1] = "final norm"
              /\ first.md.output_layer
              /\ \A j \in 1..(i - 1) : names[j] \notin AfterOutputLayerNames
              /\ \A j \in (i + 1)..Len(names) :
                    names[j] \in AfterOutputLayerNames

\* An encoder run with untied embeddings has completed: the output layer
\* stands between the final norm and the pooler.
C14_Witness ==
    /\ pc = "returned"
    /\ PutSeq[1].md.output_layer
    /\ PutSeq[1].md.model_type = "BERT"
    /\ \E i \in 1..Len(PutNames) :
          /\ PutNames[i] = "final norm"
          /\ PutNames[i + 1] = "output layer"
          /\ PutNames[i + 2] = "pooler"

(***************************************************************************)
(* C15.  Task heads belong to BERT only: a run whose metadata says GPT     *)
(* never puts "pooler", "lm head" or "binary head"; a complete fault-free  *)
(* BERT run has put "pooler" and right after it "lm head", once each, and  *)
(* "binary head" right after "lm head" if and only if bert_binary_head is  *)
(* set; in no run does a head appear out of that order.                    *)
(***************************************************************************)
C15_TaskHeadsOnlyForBert ==
    LET puts == PutSeq
        first == puts[1]
        names == [ i \in 1..Len(puts) |-> puts[i].name ]
        At(name) == { i \in 1..Len(names) : names[i] = name }
        heads == { i \in 1..Len(names) : names[i] \in HeadNames }
    IN  /\ (heads # {}) =>
              /\ first.kind = "metadata"
              /\ first.md.model_type = "BERT"
        /\ \A i \in At("lm head") : i > 1 /\ names[i - 1] = "pooler"
        /\ \A i \in At("binary head") :
              /\ i > 1
              /\ names[i - 1] = "lm head"
              /\ first.md.bert_binary_head
        /\ \A name \in HeadNames : Cardinality(At(name)) <= 1
        /\ (pc = "returned" /\ first.md.model_type = "BERT") =>
              /\ At("pooler") # {}
              /\ At("lm head") # {}
              /\ (At("binary head") # {}) <=> first.md.bert_binary_head
        /\ (pc = "returned" /\ first.md.model_type = "GPT") =>
              heads = {}

\* A BERT run without binary head has completed with pooler and lm head.
C15_Witness ==
    /\ pc = "returned"
    /\ PutSeq[1].md.model_type = "BERT"
    /\ ~PutSeq[1].md.bert_binary_head
    /\ \E i \in 1..Len(PutNames) :
          /\ PutNames[i] = "pooler"
          /\ PutNames[i + 1] = "lm head"
          /\ PutNames[i + 2] = "done"

\* The step of the layer loop that puts a layer message.
SendLayerStep ==
    /\ pc = "layer"
    /\ Len(trace') = Len(trace) + 1
    /\ IsLayerEvent(trace'[Len(trace')])

\* (vp, pp) coordinates in virtual-pipeline-major, pipeline-minor order.
VpMajorLeq(a, b) == a[2] < b[2] \/ (a[2] = b[2] /\ a[1] <= b[1])

(***************************************************************************)
(* C16.  The number in the name of a transformer-layer message is          *)
(* vp_rank * pp_size * layers_per_stage + pp_rank * layers_per_stage +     *)
(* layer_num, with layers_per_stage = get_num_layers of the model set the  *)
(* message is read from, which is the set of (pp_rank, vp_rank); the       *)
(* layer messages are put in virtual-pipeline-major, pipeline-minor order. *)
(***************************************************************************)
C16_GlobalLayerIndex ==
    /\ [][ SendLayerStep =>
             LET item == trace'[Len(trace')].item
                 layers_per_stage == get_num_layers(models[1])
             IN  /\ item.name =
                       LayerName(loop.vp_rank
                                   * margs.pipeline_model_parallel_size
                                   * layers_per_stage
                                 + loop.pp_rank * layers_per_stage
                                 + loop.layer_num)
                 /\ item.src = <<loop.pp_rank, loop.vp_rank>>
                 /\ loop.layer_num < layers_per_stage ]_vars
    /\ [](\A i, j \in LayerIdx :
             (i < j) => VpMajorLeq(trace[i].item.src, trace[j].item.src))

\* The last layer of the largest geometry has been put: pipeline stage
\* MaxPP - 1 of virtual-pipeline pass MaxVP - 1.
C16_Witness ==
    /\ pc = "final_norm"
    /\ trace[Len(trace)].op = "put"
    /\ trace[Len(trace)].item.name
         = LayerName(MaxVP * MaxPP * MaxLayersPerStage - 1)
    /\ trace[Len(trace)].item.src = <<MaxPP - 1, MaxVP - 1>>

\* The roles CoreMoETESchema instantiates once per local expert, with the
\* tail of their storage path.
ExpertRoles ==
    { <<"mlp_fc1_weight", "linear_fc1.weight">>,
      <<"mlp_fc2_weight", "linear_fc2.weight">>,
      <<"mlp_xielu_alpha_p", "activation_func.alpha_p.weight">>,
      <<"mlp_xielu_alpha_n", "activation_func.alpha_n.weight">> }

ExpertKey(role, idx) == role \o "." \o ToString(idx)

ExpertPath(tail, idx) ==
    "mlp.experts.local_experts." \o ToString(idx) \o "." \o tail

\* The roles of the MoE layer table that are not instantiated per expert.
SharedMoERoles ==
    { e[1] : e \in CoreMoETESchemaLayer(0) }

(***************************************************************************)
(* C17.  The schema get_model_schema returns for num_experts > 0 has, for  *)
(* each per-expert role, one entry for each local expert index             *)
(* 0..(num_experts / expert_model_parallel_size) - 1, the index being the  *)
(* same in the role key and in the storage path, and no per-expert entry   *)
(* for another index; in every schema returned a role key has one storage  *)
(* path.                                                                   *)
(***************************************************************************)
C17_ExpertEntries ==
    (result.fn = "get_model_schema" /\ result.ok) =>
        LET table == LayerSchema(result.schema)
            keys == { e[1] : e \in table }
            locals_ == call.num_experts \div call.expert_model_parallel_size
        IN  /\ \A e1, e2 \in table : (e1[1] = e2[1]) => (e1 = e2)
            /\ (call.num_experts # None /\ call.num_experts > 0) =>
                  /\ result.schema.cls = "CoreMoETESchema"
                  /\ \A role \in ExpertRoles :
                        \A idx, jdx \in 0..MaxExperts :
                           (<<ExpertKey(role[1], idx),
                              ExpertPath(role[2], jdx)>> \in table)
                             <=> (idx = jdx /\ idx < locals_)
                  /\ keys \ SharedMoERoles
                       = { ExpertKey(role[1], idx) :
                             role \in ExpertRoles, idx \in 0..(locals_ - 1) }

\* The schema of 4 experts over expert parallel size 2 was returned.
C17_Witness ==
    /\ result.fn = "get_model_schema"
    /\ result.ok
    /\ call.num_experts = 4
    /\ call.expert_model_parallel_size = 2
    /\ result.schema.num_local_experts = 2
    /\ <<"mlp_fc2_weight.1", "mlp.experts.local_experts.1.linear_fc2.weight">>
         \in LayerSchema(result.schema)

\* The step of the get_model_schema call of the loader (and is not an
\* injected fault).
ResolveSchemaStep ==
    /\ pc = "schema"
    /\ pc' # "schema"
    /\ exc'.type # "Exception"

\* What get_model_schema is to return: the variant, or the assertion.
Selected(impl, num_experts, ep_size, r) ==
    IF num_experts # None /\ num_experts > 0
    THEN IF impl = "transformer_engine" /\ ep_size # None
         THEN r.ok /\ r.schema.cls = "CoreMoETESchema"
         ELSE ~r.ok
    ELSE /\ r.ok
         /\ r.schema.cls = IF impl = "local" THEN "CoreLocalSchema"
                           ELSE "CoreTESchema"

(***************************************************************************)
(* C18.  get_model_schema: with num_experts a positive integer the MoE     *)
(* variant is returned for transformer_engine with an integer expert       *)
(* parallel size and every other combination fails by assertion; with      *)
(* num_experts None or 0 the dense local or transformer_engine variant is  *)
(* returned according to transformer_impl.  In the loader the failure      *)
(* comes after the metadata record and before "embeddings": the items put  *)
(* are metadata and then "exit".                                           *)
(***************************************************************************)
C18_SchemaSelection ==
    /\ [](result.fn = "get_model_schema" =>
            Selected(call.transformer_impl, call.num_experts,
                     call.expert_model_parallel_size, result))
    /\ [][ ResolveSchemaStep =>
             LET failed == exc' = [type |-> "AssertionError",
                                   at |-> "get_model_schema"]
             IN  /\ Selected(margs.transformer_impl, margs.num_experts,
                             margs.expert_model_parallel_size,
                             [ok |-> ~failed, schema |-> schema'])
                 /\ failed => (PutNames = <<"metadata">> /\ trace' = trace)
                 /\ ~failed => (pc' = "embeddings" /\ exc' = NoExc) ]_vars
    /\ [](exc.at = "get_model_schema" =>
            /\ exc.type \in {"AssertionError", "Exception"}
            /\ IsPrefix(PutNames, <<"metadata", "exit">>)
            /\ (pc = "raised") => (PutNames = <<"metadata", "exit">>))

\* A checkpoint with experts read with the local implementation: the sink
\* has received the metadata and "exit".
C18_Witness ==
    /\ pc = "raised"
    /\ exc = [type |-> "AssertionError", at |-> "get_model_schema"]
    /\ queue = <<>>
    /\ Len(received) = 2
    /\ received[1].kind = "metadata"
    /\ received[2] = ExitItem

\* The bias labels of a layer message agree with the flags of the metadata.
BiasLabelsOk(keys, m) ==
    LET linear == { "dense bias", "mlp l1 bias", "mlp l0 bias",
                    "mlp l0 bias W", "mlp l0 bias V" }
        norm == { "input norm bias", "post norm bias", "q norm bias",
                  "k norm bias" }
    IN  /\ ("qkv bias" \in keys) <=> m.qkv_bias
        /\ IF m.linear_bias
           THEN keys \cap linear =
                  {"dense bias", "mlp l1 bias"}
                  \cup (IF m.swiglu
                        THEN {"mlp l0 bias W", "mlp l0 bias V"}
                        ELSE {"mlp l0 bias"})
           ELSE keys \cap linear = {}
        /\ IF m.norm_has_bias
           THEN {"input norm bias", "post norm bias"} \subseteq keys
           ELSE keys \cap norm = {}
        /\ ("q norm bias" \in keys) => ("q norm weight" \in keys)
        /\ ("k norm bias" \in keys) => ("k norm weight" \in keys)

(***************************************************************************)
(* C19.  Bias labels follow the flags: a layer message has "qkv bias"      *)
(* exactly when qkv_bias is set, "dense bias", "mlp l1 bias" and the first *)
(* MLP bias ("mlp l0 bias", or its W and V when gated) exactly when        *)
(* linear_bias is set, and normalization biases only when norm_has_bias    *)
(* (so has "final norm" its "bias"); a cleared flag is no fault: the layer *)
(* step of a dense schema never raises by itself.                          *)
(***************************************************************************)
C19_BiasBranches ==
    /\ [](\A i \in PutIdx :
            LET item == trace[i].item
                first == trace[CHOOSE j \in PutIdx : \A k \in PutIdx : j <= k]
            IN  /\ IsLayerEvent(trace[i]) =>
                      BiasLabelsOk(item.keys, first.item.md)
                /\ (item.name = "final norm") =>
                      (("bias" \in item.keys) <=> first.item.md.norm_has_bias))
    /\ [](result.fn = "layer" =>
            BiasLabelsOk(DOMAIN result.message, call.md))
    /\ [][ (pc = "layer" /\ exc'.type \notin {"none", "Exception"}) =>
             schema.cls = "CoreMoETESchema" ]_vars

\* A dense run with every bias flag cleared has completed: its layer
\* message holds the six weights alone.
C19_Witness ==
    /\ pc = "returned"
    /\ PutNames = << "metadata", "embeddings", "transformer layer 0",
                     "final norm", "done" >>
    /\ ~PutSeq[1].md.qkv_bias
    /\ ~PutSeq[1].md.linear_bias
    /\ ~PutSeq[1].md.norm_has_bias
    /\ PutSeq[1].md.swiglu
    /\ PutSeq[3].keys = { "input norm weight", "post norm weight",
                          "mlp l0 weight W", "mlp l0 weight V", "qkv weight",
                          "dense weight", "mlp l1 weight" }
    /\ PutSeq[4].keys = {"weight"}

\* The role a replicated label of the layer message is read from.
ReplicatedRole ==
    [ l \in { "input norm weight", "post norm weight", "input norm bias",
              "post norm bias", "q norm weight", "q norm bias",
              "k norm weight", "k norm bias", "mlp xielu alpha p",
              "mlp xielu alpha n" } |->
        CASE l = "input norm weight" -> "self_attn_norm_weight"
          [] l = "post norm weight" -> "mlp_norm_weight"
          [] l = "input norm bias" -> "self_attn_norm_bias"
          [] l = "post norm bias" -> "mlp_norm_bias"
          [] l = "q norm weight" -> "self_attn_q_layernorm_weight"
          [] l = "q norm bias" -> "self_attn_q_layernorm_bias"
          [] l = "k norm weight" -> "self_attn_k_layernorm_weight"
          [] l = "k norm bias" -> "self_attn_k_layernorm_bias"
          [] l = "mlp xielu alpha p" -> "mlp_xielu_alpha_p"
          [] l = "mlp xielu alpha n" -> "mlp_xielu_alpha_n" ]

\* The copies of a layer call with the copies of the ranks >= 1 exchanged:
\* identical ones made to differ, differing ones made identical.
OtherLayerCopies ==
    [ r \in 1..call.tp_size |->
        ShardLayer(call.md, call.bits, call.tp_size, r, ~call.skew,
                   call.extras) ]

\* The same for a final norm call.
OtherFinalNormCopies ==
    [ r \in 1..call.tp_size |->
        [ weight |-> Replica("weight", r, ~call.skew),
          bias |-> IF call.md.norm_has_bias
                   THEN Replica("bias", r, ~call.skew) ELSE NoTensor ] ]

(***************************************************************************)
(* C20.  A replicated role (input/post norm weight and bias, q/k norm      *)
(* weight and bias, xielu alpha p and n, final norm weight and bias) is    *)
(* emitted as the copy of tensor-parallel rank 0 unchanged; the value is   *)
(* the same whatever the ranks >= 1 hold, and the merge returns normally   *)
(* when their copies differ.                                               *)
(***************************************************************************)
C20_ReplicatedFromRankZero ==
    /\ result.fn = "layer" =>
         /\ result.ok
         /\ OtherLayerCopies[1] = call.copies[1]
         /\ LET other == LayerTensors(call.md, OtherLayerCopies, call.tp_size)
            IN  \A l \in DOMAIN result.message \cap DOMAIN ReplicatedRole :
                  /\ result.message[l] = call.copies[1][ReplicatedRole[l]]
                  /\ result.message[l] = other[l]
    /\ result.fn = "final_norm" =>
         /\ result.ok
         /\ OtherFinalNormCopies[1] = call.copies[1]
         /\ LET other == FinalNormTensors(call.md, OtherFinalNormCopies)
            IN  \A l \in DOMAIN result.message :
                  /\ result.message[l] = call.copies[1][l]
                  /\ result.message[l] = other[l]

\* A layer was merged from two ranks whose replicated copies differ, with
\* every optional replicated role present.
C20_Witness ==
    /\ result.fn = "layer"
    /\ result.ok
    /\ call.tp_size = 2
    /\ call.skew
    /\ DOMAIN ReplicatedRole \subseteq DOMAIN result.message
    /\ \A l \in DOMAIN ReplicatedRole :
          /\ call.copies[2][ReplicatedRole[l]] # call.copies[1][ReplicatedRole[l]]
          /\ result.message[l] = call.copies[1][ReplicatedRole[l]]

\* The shard of tensor-parallel rank 0 of the first stage was loaded and
\* holds a position table.
RankZeroHoldsTable ==
    \E i \in LoadIdx :
       trace[i].pp = 0 /\ trace[i].tp = 0 /\ trace[i].pos

(***************************************************************************)
(* C21.  The "embeddings" message has "position embeddings", the table of  *)
(* tensor-parallel rank 0, exactly when the position-embedding kind of the *)
(* metadata is learned_absolute.  For another kind, when the shard of rank *)
(* 0 holds a position table no "embeddings" message is ever put: the run   *)
(* ends by the assertion with the stream metadata, "exit".                 *)
(***************************************************************************)
C21_PositionEmbeddings ==
    /\ LET puts == PutSeq
           names == [ i \in 1..Len(puts) |-> puts[i].name ]
       IN  /\ \A i \in 1..Len(puts) :
                 puts[i].name = "embeddings" =>
                    /\ puts[1].kind = "metadata"
                    /\ ("position embeddings" \in puts[i].keys)
                          <=> (puts[1].md.position_embedding_type
                                  = "learned_absolute")
                    /\ "word embeddings" \in puts[i].keys
           /\ ( /\ puts # <<>>
                /\ puts[1].kind = "metadata"
                /\ puts[1].md.position_embedding_type # "learned_absolute"
                /\ RankZeroHoldsTable )
              => /\ \A i \in 1..Len(puts) : names[i] \in {"metadata", "exit"}
                 /\ pc \notin {"layer", "final_norm", "done", "returned"}
                 /\ pc = "raised" => names = << "metadata", "exit" >>
           /\ (exc.at = "embeddings" /\ exc.type = "AssertionError")
              => /\ puts[1].md.position_embedding_type # "learned_absolute"
                 /\ RankZeroHoldsTable
    /\ result.fn = "embeddings" =>
         /\ result.ok <=> (call.md.position_embedding_type = "learned_absolute"
                            \/ call.copies[1]["pos"] = NoTensor)
         /\ result.ok =>
              /\ ("position embeddings" \in DOMAIN result.message)
                   <=> (call.md.position_embedding_type = "learned_absolute")
              /\ ("position embeddings" \in DOMAIN result.message)
                   => result.message["position embeddings"]
                         = call.copies[1]["pos"]

\* A checkpoint of the rope kind whose rank 0 holds a position table: the
\* assertion has ended the run after the metadata.
C21_Witness ==
    /\ pc = "raised"
    /\ exc = [type |-> "AssertionError", at |-> "embeddings"]
    /\ PutNames = << "metadata", "exit" >>
    /\ PutSeq[1].md.position_embedding_type = "rope"
    /\ RankZeroHoldsTable

\* The messages built from the model set the layer traversal ends on.
LastSetNames ==
    {"final norm", "output layer", "pooler", "lm head", "binary head"}

(***************************************************************************)
(* C22.  Whatever pp_size and vp_size are, the "embeddings" message is     *)
(* built from the model set of pipeline rank 0 and virtual-pipeline rank   *)
(* 0, and "final norm", "output layer" and the task heads from the set of  *)
(* pipeline rank pp_size-1 and virtual-pipeline rank vp_size-1, the set    *)
(* the last layer message was built from.                                  *)
(***************************************************************************)
C22_FirstAndLastModelSet ==
    LET puts == PutSeq
        layers == { i \in 1..Len(puts) :
                      /\ puts[i].kind = "message"
                      /\ puts[i].name \notin NotLayerNames }
    IN  \A i \in 1..Len(puts) :
          /\ puts[i].name = "embeddings" => puts[i].src = <<0, 0>>
          /\ puts[i].name \in LastSetNames =>
               /\ layers # {}
               /\ \A j \in layers :
                     /\ j < i
                     /\ VpMajorLeq(puts[j].src, puts[i].src)
               /\ \E j \in layers : puts[j].src = puts[i].src
               /\ puts[i].src[1] = puts[1].md.previous_pipeline_parallel_size - 1
               /\ margs # NoMargs =>
                    puts[i].src[2] =
                       VpOr1(margs.virtual_pipeline_model_parallel_size) - 1

\* A BERT run over two pipeline stages and two virtual-pipeline chunks has
\* completed: the embeddings came from set (0, 0), the final norm, the
\* output layer and the three heads from set (1, 1).
C22_Witness ==
    /\ pc = "returned"
    /\ LET puts == PutSeq
       IN  /\ puts[1].md.previous_pipeline_parallel_size = 2
           /\ puts[2].name = "embeddings"
           /\ puts[2].src = <<0, 0>>
           /\ \A n \in LastSetNames :
                 \E i \in 1..Len(puts) :
                    puts[i].name = n /\ puts[i].src = <<1, 1>>

(***************************************************************************)
(* C23.  The metadata record is the first item put, and it is put only     *)
(* after the shard of every tensor-parallel rank of pipeline stage 0 has   *)
(* been loaded with counters that agree with the first ones.  A run that   *)
(* ends before that point (a missing import or argument, an unknown model  *)
(* type, a failed test_logits guard, a load fault or a disagreeing counter *)
(* in stage 0) has put "exit" and nothing else.                            *)
(***************************************************************************)
C23_MetadataAfterFirstStage ==
    LET loads == LoadIdx
        puts == PutIdx
        metas == { i \in puts : trace[i].item.kind = "metadata" }
    IN  /\ \A i \in metas :
              LET before == { j \in loads : j < i }
                  m == trace[i].item.md
              IN  /\ \A j \in puts : i <= j
                  /\ { <<trace[j].pp, trace[j].tp>> : j \in before }
                       = {0} \X (0..(m.previous_tensor_parallel_size - 1))
                  /\ Cardinality(before) = m.previous_tensor_parallel_size
                  /\ \A j \in before : ~DisagreesWith(trace[j], FirstLoad)
        /\ (metas = {}) =>
              /\ \A j \in puts : trace[j].item = ExitItem
              /\ Cardinality(puts) <= 1
              /\ \A j \in loads : trace[j].pp = 0
              /\ pc \notin {"schema", "embeddings", "layer", "final_norm",
                            "done", "returned"}
              /\ (pc = "raised") => (PutNames = << "exit" >>)

\* The shard of rank 1 of stage 0 reported other counters than rank 0: the
\* run has ended with "exit" alone on the stream.
C23_Witness ==
    /\ pc = "raised"
    /\ exc = [type |-> "AssertionError", at |-> "get_models"]
    /\ PutNames = << "exit" >>
    /\ Cardinality(LoadIdx) = 2
    /\ \E i \in LoadIdx : trace[i].tp = 1 /\ trace[i].pp = 0 /\ Disagrees(i)

\* The run is at the guard of lines 219-221 with test_logits requested.
AtTestLogitsGuard == pc = "configure" /\ args.test_logits

\* What the guard requires of the run.
TestLogitsAllowed ==
    /\ margs.tensor_model_parallel_size = 1
    /\ VpOr1(margs.virtual_pipeline_model_parallel_size) = 1
    /\ args.model_type = "GPT"

(***************************************************************************)
(* C24.  With test_logits requested the run goes on to load shards only if *)
(* tp_size = 1, vp_size = 1 and the model type is GPT; otherwise the       *)
(* assertion ends it before any shard is loaded and before the metadata    *)
(* record, and the stream is exactly "exit".  The guard never fails a run  *)
(* for its pp_size.  When "logits_check" is emitted it follows every       *)
(* parameter message and "done" is the next and last item.                 *)
(***************************************************************************)
C24_TestLogits ==
    /\ [][ (AtTestLogitsGuard /\ pc' = "get_models") => TestLogitsAllowed ]_vars
    /\ [][ (AtTestLogitsGuard /\ TestLogitsAllowed /\ pc' = "except")
             => exc'.at # "test_logits" ]_vars
    /\ [][ (AtTestLogitsGuard /\ ~TestLogitsAllowed /\ pc' # pc)
             => exc' \in { [type |-> "AssertionError", at |-> "test_logits"],
                           [type |-> "Exception", at |-> "configure"] } ]_vars
    /\ [](LET puts == PutSeq
              names == [ i \in 1..Len(puts) |-> puts[i].name ]
          IN  /\ (exc.at = "test_logits") =>
                    /\ args.test_logits
                    /\ exc.type = "AssertionError"
                    /\ LoadIdx = {}
                    /\ \A i \in 1..Len(puts) : puts[i] = ExitItem
                    /\ (pc = "raised") => (names = << "exit" >>)
              /\ (args.test_logits /\ LoadIdx # {}) =>
                    /\ args.model_type = "GPT"
                    /\ \A i \in LoadIdx : trace[i].tp = 0
              /\ \A i \in 1..Len(puts) :
                    (puts[i].name = "logits_check") =>
                       LET expected == ExpectedNames(args, puts[1].md)
                       IN  /\ args.test_logits
                           /\ puts[1].md.previous_tensor_parallel_size = 1
                           /\ i = Len(expected) - 1
                           /\ \A j \in 1..i : names[j] = expected[j]
                           /\ Len(puts) <= i + 1
                           /\ (Len(puts) = i + 1) =>
                                 names[i + 1] \in {"done", "exit"}
                           /\ (pc = "returned") =>
                                 (Len(puts) = i + 1 /\ names[i + 1] = "done")
              /\ (pc = "returned" /\ args.test_logits) =>
                    (Len(puts) >= 2 /\ names[Len(puts) - 1] = "logits_check"))

\* A GPT run with test_logits over two pipeline stages has completed:
\* "logits_check" is the item before "done".
C24_Witness ==
    /\ pc = "returned"
    /\ args.test_logits
    /\ PutSeq[1].md.previous_pipeline_parallel_size = 2
    /\ PutNames[Len(PutNames) - 1] = "logits_check"
    /\ PutNames[Len(PutNames)] = "done"

====
